---- MODULE Spec2Model ----
(***************************************************************************)
(* The orchestration run controller of langflow.custom.orchestrator and    *)
(* the run table it shares with langflow.custom.projects.                  *)
(*                                                                         *)
(* A Python str is a TLA+ string, Optional[x] is the empty tuple (None) or *)
(* the one-element tuple <<x>>, a dict is a sequence of <<key, value>>     *)
(* pairs in insertion order, a datetime is the tick of a clock that is not *)
(* modelled.                                                               *)
(***************************************************************************)
EXTENDS Integers, Sequences, FiniteSets, TLC

\* ------------------------------------------------------------------ bounds
MaxSteps == 2
MaxRuns == 1
MaxOps == 1
MaxTasks == 2
MaxCalls == 3
MaxRows == 2
MaxSegments == 3
MaxArtifacts == 2

\* --------------------------------------------------------- program constants
PlaceholderPromptChars == 100
ContextValueChars == 200
AssemblerResultChars == 500

\* ------------------------------------------------------------ Optional[x]
None == <<>>
Some(x) == <<x>>
IsNone(o) == o = <<>>
Get(o) == o[1]

\* ------------------------------------------------------------ str helpers
Min(a, b) == IF a < b THEN a ELSE b


\* s[:n]
Prefix(s, n) == SubSeq(s, 1, Min(n, Len(s)))

\* s.find(pat, from) with 1-based positions; 0 when pat does not occur
IndexOf(s, pat, from) ==
    LET hits == {i \in from..(Len(s) - Len(pat) + 1) :
                    SubSeq(s, i, i + Len(pat) - 1) = pat}
    IN  IF hits = {} THEN 0
        ELSE CHOOSE i \in hits : \A j \in hits : i <= j

\* pat in s
Contains(s, pat) == IndexOf(s, pat, 1) # 0

IsSpace(c) == c \in {" ", "\n", "\t", "\r"}

\* str.strip()
RECURSIVE LStrip(_)
LStrip(s) ==
    IF Len(s) > 0 /\ IsSpace(SubSeq(s, 1, 1))
    THEN LStrip(SubSeq(s, 2, Len(s))) ELSE s

RECURSIVE RStrip(_)
RStrip(s) ==
    IF Len(s) > 0 /\ IsSpace(SubSeq(s, Len(s), Len(s)))
    THEN RStrip(SubSeq(s, 1, Len(s) - 1)) ELSE s

Strip(s) == RStrip(LStrip(s))

\* "\n".join(lines)
RECURSIVE JoinLines(_)
JoinLines(lines) ==
    IF Len(lines) = 0 THEN ""
    ELSE IF Len(lines) = 1 THEN lines[1]
    ELSE lines[1] \o "\n" \o JoinLines(Tail(lines))

\* repr() of a str: single quotes unless the text holds a single quote and
\* no double quote; backslash, the quote and control characters escaped
RECURSIVE ReprBody(_, _)
ReprBody(s, q) ==
    IF Len(s) = 0 THEN ""
    ELSE LET c == SubSeq(s, 1, 1)
             e == IF c = "\\" THEN "\\\\"
                  ELSE IF c = "\n" THEN "\\n"
                  ELSE IF c = "\t" THEN "\\t"
                  ELSE IF c = "\r" THEN "\\r"
                  ELSE IF c = q THEN "\\" \o q
                  ELSE c
         IN  e \o ReprBody(SubSeq(s, 2, Len(s)), q)

PyRepr(s) ==
    LET q == IF Contains(s, "'") /\ ~Contains(s, "\"") THEN "\"" ELSE "'"
    IN  q \o ReprBody(s, q) \o q

\* A backtick cannot be written inside a TLA+ string: the model writes "~"
\* for the backtick character, and no text of the model holds a real "~".
Tick == "~"
Fence == Tick \o Tick \o Tick

\* ------------------------------------------------ orchestrator/service.py
SUCCESS == "SUCCESS"
FAILED == "FAILED"
RUNNING == "RUNNING"
PENDING == "PENDING"

\* class ModelType: the values of the enum
ModelType == {"CodeLlama", "CodeGemma", "T5Gemma", "Assembler"}

\* the positions of the backticks of a text: every fence starts at one
TickPositions(text) == {i \in 1..Len(text) : SubSeq(text, i, i) = Tick}

\* s.find(pat, from) for a pat that starts with a backtick, given the
\* backtick positions of s
IndexOfFence(s, pat, from, ticks) ==
    LET hits == {i \in ticks : /\ i >= from
                               /\ i + Len(pat) - 1 <= Len(s)
                               /\ SubSeq(s, i, i + Len(pat) - 1) = pat}
    IN  IF hits = {} THEN 0
        ELSE CHOOSE i \in hits : \A j \in hits : i <= j

\* re.findall(fence + tag + "(.*?)" + fence, text, re.DOTALL) scanning from
\* position from: the interiors of the matches, left to right. A match opens
\* at the leftmost opening fence that is followed by a closing fence, takes
\* the nearest closing fence, and the scan resumes behind it.
\* the same pattern with a greedy interior, (.*) for (.*?): one match, from
\* the first opening fence to the last fence of the text
findall_fenced_greedy(tag, text, from, ticks) ==
    LET open == Fence \o tag
        p == IndexOfFence(text, open, from, ticks)
        closing == IF p = 0 THEN {}
                   ELSE {i \in ticks : /\ i >= p + Len(open)
                                       /\ i + Len(Fence) - 1 <= Len(text)
                                       /\ SubSeq(text, i, i + Len(Fence) - 1) = Fence}
    IN  IF closing = {} THEN <<>>
        ELSE LET q == CHOOSE i \in closing : \A j \in closing : j <= i
             IN  <<SubSeq(text, p + Len(open), q - 1)>>

RECURSIVE findall_fenced(_, _, _, _)
findall_fenced(tag, text, from, ticks) ==
    LET open == Fence \o tag
        p == IndexOfFence(text, open, from, ticks)
        q == IF p = 0 THEN 0 ELSE IndexOfFence(text, Fence, p + Len(open), ticks)
    IN  IF p = 0 \/ q = 0 THEN <<>>
        ELSE <<SubSeq(text, p + Len(open), q - 1)>>
             \o findall_fenced(tag, text, q + Len(Fence), ticks)

\* one artifact dict per block of one kind, numbered from 0
artifacts_of(step_name, blocks, type, kind, ext) ==
    [i \in 1..Len(blocks) |->
        [type |-> type,
         name |-> step_name \o ("_" \o kind \o "_" \o ToString(i - 1)
                                     \o "." \o ext),
         content |-> Strip(blocks[i])]]

extract_artifacts(step_name, result) ==
    LET ticks == TickPositions(result)
        blocks(tag) == findall_fenced(tag, result, 1, ticks)
    IN  artifacts_of(step_name, blocks("jsx"), "jsx", "component", "jsx")
        \o artifacts_of(step_name, blocks("tsx"), "tsx", "component", "tsx")
        \o artifacts_of(step_name, blocks("css"), "css", "styles", "css")
        \o artifacts_of(step_name, blocks("python"), "python", "script", "py")

\* str(v) of a context value: a str is itself, a list of artifact dicts is
\* its repr
artifact_repr(a) ==
    "{'type': " \o PyRepr(a.type) \o ", 'name': "
    \o PyRepr(a.name) \o ", 'content': " \o PyRepr(a.content) \o "}"

RECURSIVE list_repr_body(_)
list_repr_body(arts) ==
    IF Len(arts) = 0 THEN ""
    ELSE IF Len(arts) = 1 THEN artifact_repr(arts[1])
    ELSE artifact_repr(arts[1]) \o ", " \o list_repr_body(Tail(arts))

\* a context value: a str, a list of artifact dicts, or None
StrVal(s) == <<"str", s>>
ListVal(arts) == <<"list", arts>>
NoneVal == <<"none">>
OptStrVal(o) == IF o = <<>> THEN NoneVal ELSE StrVal(o[1])
PyStr(v) ==
    IF v[1] = "str" THEN v[2]
    ELSE IF v[1] = "none" THEN "None"
    ELSE "[" \o list_repr_body(v[2]) \o "]"

\* an assignment that is lost
dict_set_lost(d, key, value) == d

\* context[key] = value on a dict kept as a sequence of <<key, value>>: an
\* existing key keeps its place, a new key goes last
dict_set(d, key, value) ==
    IF \E i \in 1..Len(d) : d[i][1] = key
    THEN [i \in 1..Len(d) |-> IF d[i][1] = key THEN <<key, value>> ELSE d[i]]
    ELSE Append(d, <<key, value>>)

dict_has(d, key) == \E i \in 1..Len(d) : d[i][1] = key
dict_get(d, key) == d[CHOOSE i \in 1..Len(d) : d[i][1] = key][2]

ContextHeader == "\n\n## Available Context:\n"

inject_context(prompt, context) ==
    LET context_str ==
            JoinLines([i \in 1..Len(context) |->
                "# " \o context[i][1] \o ": "
                \o Prefix(PyStr(context[i][2]), ContextValueChars)])
    IN  prompt \o ContextHeader \o context_str

\* ---- the generation backend (self.hf_manager.generate) ----
\* One call of the backend either raises (None) or returns a text (Some).
\* hf_manager is TRUE when the service was constructed with a backend.
BackendError == "backend unavailable"

\* the three handlers: the backend's text when a backend is configured and
\* its call returns, the placeholder otherwise
execute_code_llama(hf_manager, outcome, prompt) ==
    IF hf_manager /\ ~IsNone(outcome) THEN Get(outcome)
    ELSE "[CodeLlama] Placeholder response to: "
         \o Prefix(prompt, PlaceholderPromptChars) \o "..."

\* a placeholder that embeds the whole prompt
execute_code_gemma_whole_prompt(hf_manager, outcome, prompt) ==
    IF hf_manager /\ ~IsNone(outcome) THEN Get(outcome)
    ELSE "[CodeGemma] Placeholder response to: " \o prompt \o "..."

execute_code_gemma(hf_manager, outcome, prompt) ==
    IF hf_manager /\ ~IsNone(outcome) THEN Get(outcome)
    ELSE "[CodeGemma] Placeholder response to: "
         \o Prefix(prompt, PlaceholderPromptChars) \o "..."

execute_t5_gemma(hf_manager, outcome, prompt) ==
    IF hf_manager /\ ~IsNone(outcome) THEN Get(outcome)
    ELSE "[T5Gemma] Placeholder response to: "
         \o Prefix(prompt, PlaceholderPromptChars) \o "..."

\* the if/elif chain of _execute_step: the model types that have a handler
HasHandler(model_type) == model_type \in {"CodeLlama", "CodeGemma", "T5Gemma"}

StepOutput(step_name, status, result, error, arts) ==
    [step_name |-> step_name, status |-> status, result |-> result,
     error |-> error, artifacts |-> arts]

\* a step executor that reports the exception of the backend
execute_step_propagating(step_input, execution_context, hf_manager, outcome) ==
    IF HasHandler(step_input.model_type) /\ ~(hf_manager /\ IsNone(outcome))
    THEN LET text == IF hf_manager THEN Get(outcome) ELSE ""
         IN  StepOutput(step_input.step_name, SUCCESS, Some(text), None,
                        extract_artifacts(step_input.step_name, text))
    ELSE StepOutput(step_input.step_name, FAILED, None, Some(BackendError), <<>>)

\* a step executor that extracts the artifacts from the prompt it was given
\* and not from the result
execute_step_artifacts_of_prompt(step_input, execution_context, hf_manager, outcome) ==
    LET enriched_prompt == inject_context(step_input.prompt, execution_context)
        result ==
            IF step_input.model_type = "CodeLlama"
            THEN execute_code_llama(hf_manager, outcome, enriched_prompt)
            ELSE IF step_input.model_type = "CodeGemma"
            THEN execute_code_gemma(hf_manager, outcome, enriched_prompt)
            ELSE execute_t5_gemma(hf_manager, outcome, enriched_prompt)
    IN  IF HasHandler(step_input.model_type)
        THEN StepOutput(step_input.step_name, SUCCESS, Some(result), None,
                        extract_artifacts(step_input.step_name, enriched_prompt))
        ELSE StepOutput(step_input.step_name, FAILED, None,
                        Some(("Unknown model type: " \o step_input.model_type)),
                        <<>>)

\* _execute_step: the elapsed time is not modelled. A str-mixin enum member
\* is written by its value in the error text.
execute_step(step_input, execution_context, hf_manager, outcome) ==
    LET enriched_prompt == inject_context(step_input.prompt, execution_context)
        result ==
            IF step_input.model_type = "CodeLlama"
            THEN execute_code_llama(hf_manager, outcome, enriched_prompt)
            ELSE IF step_input.model_type = "CodeGemma"
            THEN execute_code_gemma(hf_manager, outcome, enriched_prompt)
            ELSE execute_t5_gemma(hf_manager, outcome, enriched_prompt)
    IN  IF HasHandler(step_input.model_type)
        THEN StepOutput(step_input.step_name, SUCCESS, Some(result), None,
                        extract_artifacts(step_input.step_name, result))
        ELSE StepOutput(step_input.step_name, FAILED, None,
                        Some(("Unknown model type: " \o step_input.model_type)),
                        <<>>)

\* the loop without its break
StopsPipeline_never(step_output) == FALSE

\* line 120: the test that stops the loop
StopsPipeline(step_output) == step_output.status = FAILED

\* _build_assembler_prompt
step_prompt_lines(i, step_output) ==
    <<("\n### Step " \o ToString(i) \o ": ") \o step_output.step_name,
      ("Status: " \o step_output.status)>>
    \o (IF ~IsNone(step_output.result) /\ Len(Get(step_output.result)) > 0
        THEN <<"Result:",
               Prefix(Get(step_output.result), AssemblerResultChars)>>
        ELSE <<>>)
    \o (IF Len(step_output.artifacts) > 0
        THEN <<"Artifacts:">>
             \o [k \in 1..Len(step_output.artifacts) |->
                    "- " \o step_output.artifacts[k].name]
        ELSE <<>>)

RECURSIVE steps_prompt_lines(_, _)
steps_prompt_lines(step_outputs, i) ==
    IF i > Len(step_outputs) THEN <<>>
    ELSE step_prompt_lines(i, step_outputs[i])
         \o steps_prompt_lines(step_outputs, i + 1)

AssemblerPromptHead ==
    <<"# Assembly Task",
      "You are an expert code assembler. Your task is to:",
      "1. Review the following step outputs",
      "2. Combine them into a cohesive, production-ready codebase",
      "3. Follow the 'Lego pattern': each piece should fit perfectly",
      "4. Clean up, optimize, and polish the code",
      "5. Add proper comments and documentation",
      "",
      "## Step Outputs:">>

AssemblerPromptTail ==
    <<"",
      "## Final Assembly Instructions:",
      "1. Create a cohesive structure",
      "2. Remove duplication",
      "3. Ensure type safety (TypeScript/Python)",
      "4. Add proper error handling",
      "5. Include comprehensive documentation",
      "",
      "Provide the final, production-ready code in code blocks.">>

build_assembler_prompt(step_outputs) ==
    JoinLines(AssemblerPromptHead \o steps_prompt_lines(step_outputs, 1)
              \o AssemblerPromptTail)

\* an assembler that falls back to its placeholder when the backend raises
run_assembler_fallback(hf_manager, outcome, step_outputs) ==
    LET assembled_code ==
            IF hf_manager /\ ~IsNone(outcome) THEN Get(outcome)
            ELSE "[Assembled Output]\n\n" \o build_assembler_prompt(step_outputs)
    IN  [assembled_code |-> assembled_code,
         artifacts |-> extract_artifacts("assembler", assembled_code),
         error |-> IF hf_manager /\ IsNone(outcome)
                   THEN Some(BackendError) ELSE None]

\* _run_assembler
run_assembler(hf_manager, outcome, step_outputs) ==
    LET assembler_prompt == build_assembler_prompt(step_outputs)
        assembled_code ==
            IF hf_manager THEN Get(outcome)
            ELSE "[Assembled Output]\n\n" \o assembler_prompt
    IN  IF hf_manager /\ IsNone(outcome)
        THEN [assembled_code |-> "", artifacts |-> <<>>,
              error |-> Some(BackendError)]
        ELSE [assembled_code |-> assembled_code,
              artifacts |-> extract_artifacts("assembler", assembled_code),
              error |-> None]

\* ------------------------------------------------------------- the state
VARIABLES
    projects,      \* project table: the ids of the rows
    runs,          \* orchestrationrun table: id -> row
    artifacts,     \* generatedartifact table: the rows in insertion order
    next_run,      \* how many run ids uuid4() has handed out
    step_history,  \* self.step_history of the service that is called directly
    ex,            \* the frame of the execute_pipeline call
    n_ops,         \* run-table writes made through ProjectService
    summary,       \* the answer to the last run summary query
    loaded_models, \* RuntimeManager.loaded_models: the names it holds
    runtimes,      \* RuntimeManager.runtimes: name -> the runtime's state
    replaced,      \* name -> the runtime loaded_models holds, where
                   \* register_model has put another one in runtimes
    tasks,         \* the coroutines that call the RuntimeManager
    contexts,      \* context table: the rows in insertion order
    fk_enforced,   \* whether the database engine checks foreign keys
    store_call,    \* the last call of a ProjectService method, and its outcome
    extraction,    \* a call of _extract_artifacts: its arguments and its result
    conversion     \* a call of convert_artifacts_to_framer, likewise

\* the state the run controller and the run table live in
orchestrator_vars == <<projects, runs, artifacts, next_run, step_history, ex, n_ops>>

query_vars == <<summary>>

\* the state of the model-runtime registry and of its callers
runtime_vars == <<loaded_models, runtimes, replaced, tasks>>

\* the tables beside those the run controller writes, and their callers
store_vars == <<contexts, fk_enforced, store_call>>

\* the state the run controller never touches
other_vars == <<query_vars, runtime_vars, store_vars, extraction, conversion>>

\* the state the summary queries, the RuntimeManager and the ProjectService
\* never touch
outside_query == <<orchestrator_vars, runtime_vars, store_vars, extraction,
                   conversion>>
outside_runtime == <<orchestrator_vars, query_vars, store_vars, extraction,
                     conversion>>
outside_store == <<next_run, step_history, ex, n_ops, query_vars, runtime_vars,
                   extraction, conversion>>
outside_extraction == <<orchestrator_vars, query_vars, runtime_vars, store_vars,
                        conversion>>
outside_conversion == <<orchestrator_vars, query_vars, runtime_vars, store_vars,
                        extraction>>

vars == <<orchestrator_vars, other_vars>>

\* ------------------------------------------------------------ the inputs
PromptShort == "Generate a button"
PromptFenced ==
    "Port this:\n~~~jsx\nexport default function App(){}\n~~~\nand style it "
    \o "~~~css\n.app{color:red;}\n~~~ then explain every change you made in detail"
TextFenced == "~~~tsx\nexport const B = () => null\n~~~"

StepInput(step_name, model_type, prompt) ==
    [step_name |-> step_name, model_type |-> model_type, prompt |-> prompt]

\* Step inputs as a caller of the service can build them: the handled model
\* types, the enum member without a handler, and a value outside the enum.
\* StepInput.context is never read by the service and the parameters only
\* reach the backend, so neither is carried.
StepInputs ==
    {StepInput("a", "CodeLlama", PromptShort),
     StepInput("b", "CodeGemma", PromptFenced),
     StepInput("c", "T5Gemma", PromptShort),
     StepInput("asm", "Assembler", PromptShort),
     StepInput("bad", "NotARealModel", PromptShort)}

RECURSIVE SeqsUpTo(_, _)
SeqsUpTo(S, n) ==
    IF n = 0 THEN {<<>>}
    ELSE LET shorter == SeqsUpTo(S, n - 1)
         IN  shorter \cup {Append(q, e) : q \in {r \in shorter : Len(r) = n - 1}, e \in S}

StepLists == SeqsUpTo(StepInputs, MaxSteps)
ShortStepLists == {steps \in StepLists : Len(steps) <= 1}
\* step lists of one handled step and the two steps that fail
FewStepLists ==
    {steps \in StepLists :
        \A k \in 1..Len(steps) : steps[k].step_name \in {"a", "asm", "bad"}}
\* step lists of the handled step and the step that is not of the enum
TwoKindStepLists ==
    {steps \in StepLists :
        \A k \in 1..Len(steps) : steps[k].step_name \in {"a", "bad"}}
GlobalContexts == {<<>>, << <<"framework", StrVal("react")>> >>}
BackendOutcomes == {None, Some(TextFenced), Some("")}
\* the backend is called only by a service that has one
Outcomes(hf) == IF hf THEN BackendOutcomes ELSE {None}
Statuses == {PENDING, RUNNING, SUCCESS, FAILED}
ProjectIds == {1, 2}
RunIds == 1..MaxRuns
Now == "t"

\* ----------------------------------------------------- persistence writes
\* OrchestratorService._update_run; ok is FALSE when the session raises,
\* which the method swallows
\* an update that never reaches the table
update_run_unwritten(table, run_id, status, ok) == table

\* an update that writes RUNNING and drops the terminal statuses
update_run_running_only(table, run_id, status, ok) ==
    IF ok /\ run_id \in DOMAIN table /\ status = RUNNING
    THEN [table EXCEPT ![run_id].status = status]
    ELSE table

update_run(table, run_id, status, ok) ==
    IF ok /\ run_id \in DOMAIN table
    THEN [table EXCEPT ![run_id].status = status,
                       ![run_id].finished_at =
                            IF status \in {SUCCESS, FAILED} THEN Some(Now) ELSE @]
    ELSE table

\* a row written without the run it belongs to
save_artifact_unlinked(rows, run_id, project_id, artifact, ok) ==
    IF ok
    THEN Append(rows, [project_id |-> project_id, run_id |-> 0,
                       name |-> artifact.name,
                       path |-> "/artifacts/" \o artifact.name,
                       content |-> artifact.content,
                       type |-> artifact.type, source |-> "orchestrator"])
    ELSE rows

\* OrchestratorService._save_artifact, likewise
save_artifact(rows, run_id, project_id, artifact, ok) ==
    IF ok
    THEN Append(rows, [project_id |-> project_id, run_id |-> run_id,
                       name |-> artifact.name,
                       path |-> "/artifacts/" \o artifact.name,
                       content |-> artifact.content,
                       type |-> artifact.type, source |-> "orchestrator"])
    ELSE rows

\* a loop that the first write to raise ends
RECURSIVE save_artifacts_stopping(_, _, _, _, _, _)
save_artifacts_stopping(rows, run_id, project_id, arts, saved, k) ==
    IF k > Len(arts) \/ k \notin saved THEN rows
    ELSE save_artifacts_stopping(save_artifact(rows, run_id, project_id, arts[k], TRUE),
                                 run_id, project_id, arts, saved, k + 1)

\* the for loop of lines 131-132: saved holds the positions whose write
\* does not raise
RECURSIVE save_artifacts(_, _, _, _, _, _)
save_artifacts(rows, run_id, project_id, arts, saved, k) ==
    IF k > Len(arts) THEN rows
    ELSE save_artifacts(save_artifact(rows, run_id, project_id, arts[k], k \in saved),
                        run_id, project_id, arts, saved, k + 1)

\* a new OrchestrationRun row
RunRow(project_id, status, started_at) ==
    [project_id |-> project_id, status |-> status,
     started_at |-> started_at, finished_at |-> None]

insert_run(table, run_id, row) ==
    [r \in DOMAIN table \cup {run_id} |-> IF r = run_id THEN row ELSE table[r]]

\* ------------------------------------------------- the execution frame
\* results is the dict execute_pipeline builds; a key it has not set is None
NewResults(run_id, project_id) ==
    [run_id |-> run_id, project_id |-> project_id, status |-> RUNNING,
     steps |-> <<>>, final_artifacts |-> <<>>, assembled_code |-> None,
     error |-> None, started_at |-> Some(Now), finished_at |-> None]

Pipeline(project_id, steps, global_context) ==
    [project_id |-> project_id, steps |-> steps, global_context |-> global_context]

\* pc: "idle" no call yet; "begin" line 96; "loop" line 114; "after_loop"
\* line 134; "done" the call is over.  via: "service" a direct call of the
\* service, "route" a request to the submission endpoint, which runs on a
\* service of its own.  outcome: how the call ended ("returned", "raised").
\* calls records, per call of _execute_step, the position of the step, the
\* context it was given, whether its backend call raised and the persisted
\* status of the run at that moment; assembler_calls counts the calls of
\* _run_assembler, assembler_at is the number of recorded steps at the last
\* one, assembler_error the error field it returned.  updates records, per
\* call of _update_run, the status it was to write, the persisted status it
\* found and whether the write went through.
Frame(pc, via, run_id, hf, pipeline) ==
    [pc |-> pc, via |-> via, run_id |-> run_id, hf |-> hf, pipeline |-> pipeline,
     results |-> NewResults(run_id, pipeline.project_id),
     execution_context |-> <<>>, request_history |-> <<>>,
     calls |-> <<>>, assembler_calls |-> 0, assembler_at |-> 0,
     assembler_error |-> None, outcome |-> "none", updates |-> <<>>,
     earlier |-> <<>>]

IdleFrame == Frame("idle", "service", 0, FALSE, Pipeline(0, <<>>, <<>>))

\* A store that holds one project and no run yet.  A behaviour follows one
\* execute_pipeline call, with the requests that write the run table served
\* before and after it.
InitOrchestrator ==
    /\ projects = {1}
    /\ runs = <<>>
    /\ artifacts = <<>>
    /\ next_run = 0
    /\ step_history = <<>>
    /\ ex = IdleFrame
    /\ n_ops = 0
    /\ summary = None

\* the model register_model has been called for, and a name it was not
Models == {"Model1"}
ModelNames == Models \cup {"NonExistentModel"}

\* ModelRuntime.__init__: is_loaded is False; load_calls, loads_ok and
\* unload_calls count the calls of load(), those that returned True, and
\* the calls of unload()
NewRuntime == [is_loaded |-> FALSE, load_calls |-> 0, loads_ok |-> 0, unload_calls |-> 0]

\* a coroutine that is not inside a call; n counts the calls it has made
IdleTask == [op |-> "none", model |-> "none", pc |-> "idle", result |-> "none", n |-> 0]

\* RuntimeManager.__init__ and register_model for Models, with callers
\* coroutines about to use the manager
InitRuntimeManager(callers) ==
    /\ loaded_models = {}
    /\ runtimes = [m \in Models |-> NewRuntime]
    /\ replaced = <<>>
    /\ tasks = [t \in 1..callers |-> IdleTask]

\* no call made yet
NoCall == [op |-> "none", arg |-> 0, existed |-> FALSE, result |-> "none"]

\* the tables beside project, orchestrationrun and generatedartifact
InitStore(enforced) ==
    /\ contexts = <<>>
    /\ fk_enforced = enforced
    /\ store_call = NoCall

\* _extract_artifacts not called
NoExtraction == [step_name |-> "", segments |-> <<>>, result |-> "", artifacts |-> None]

\* convert_artifacts_to_framer not called
NoConversion == [run_id |-> 0, artifacts |-> <<>>, results |-> None]

Init ==
    /\ InitOrchestrator
    /\ InitRuntimeManager(0)
    /\ InitStore(TRUE)
    /\ extraction = NoExtraction
    /\ conversion = NoConversion

CanCall == ex.pc = "idle"
BetweenCalls == ex.pc \in {"idle", "done"}

\* ---------------------------------------------- projects/service.py (runs)
\* ProjectService.create_run with a status out of statuses
CreateRun(statuses) ==
    /\ BetweenCalls
    /\ next_run < MaxRuns
    /\ n_ops < MaxOps
    /\ \E project_id \in projects, status \in statuses :
        runs' = insert_run(runs, next_run + 1,
                    RunRow(project_id, status,
                           IF status = RUNNING THEN Some(Now) ELSE None))
    /\ next_run' = next_run + 1
    /\ n_ops' = n_ops + 1
    /\ UNCHANGED <<projects, artifacts, step_history, ex>>
    /\ UNCHANGED other_vars

\* create_run(project_id): status is left at its default
create_run_default == CreateRun({PENDING})

\* create_run(project_id, status)
create_run == CreateRun(Statuses)

\* ProjectService.update_run_status on a run that exists
set_run_status(table, run_id, status, finished) ==
    [table EXCEPT ![run_id].status = status,
                  ![run_id].finished_at = IF finished THEN Some(Now) ELSE @]

update_run_status ==
    /\ BetweenCalls
    /\ n_ops < MaxOps
    /\ \E run_id \in RunIds, status \in Statuses, finished \in BOOLEAN :
        /\ run_id \in DOMAIN runs
        /\ runs' = set_run_status(runs, run_id, status, finished)
    /\ n_ops' = n_ops + 1
    /\ UNCHANGED <<projects, artifacts, next_run, step_history, ex>>
    /\ UNCHANGED other_vars

\* ------------------------------------------------ orchestrator/routes.py
\* line 77: ModelType(s.model_type) raises ValueError on a value outside
\* the enum
ConvertsToModelType(steps) ==
    \A k \in 1..Len(steps) : steps[k].model_type \in ModelType

\* POST /orchestrator/projects/{project_id}/execute, lines 56-92: the payload
\* has passed the schema (1..10 steps, prompts of 10..10000 characters, any
\* str as model_type).  A missing project is a 404; the conversion of line 77
\* comes after the run was created.
Submit(lists) ==
    /\ CanCall
    /\ \E project_id \in ProjectIds, steps \in lists, gc \in GlobalContexts :
        /\ Len(steps) >= 1
        /\ \A k \in 1..Len(steps) : Len(steps[k].prompt) >= 10
        /\ IF project_id \notin projects
           THEN /\ ex' = [Frame("done", "route", 0, FALSE,
                                Pipeline(project_id, steps, gc))
                            EXCEPT !.outcome = "raised"]
                /\ UNCHANGED <<runs, next_run>>
           ELSE /\ next_run < MaxRuns
                /\ runs' = insert_run(runs, next_run + 1,
                                      RunRow(project_id, PENDING, None))
                /\ next_run' = next_run + 1
                /\ ex' = IF ConvertsToModelType(steps)
                         THEN Frame("begin", "route", next_run + 1, FALSE,
                                    Pipeline(project_id, steps, gc))
                         ELSE [Frame("done", "route", next_run + 1, FALSE,
                                     Pipeline(project_id, steps, gc))
                                 EXCEPT !.outcome = "raised"]
    /\ UNCHANGED <<projects, artifacts, step_history, n_ops>>
    /\ UNCHANGED other_vars

submit == Submit(StepLists)
submit_short == Submit(ShortStepLists)
submit_few == Submit(FewStepLists)

\* OrchestratorService(session, hf_manager) and a direct call of its
\* execute_pipeline, as the unit tests make it: with or without a backend,
\* any run id, with or without a row
CallExecutePipeline(lists) ==
    /\ CanCall
    /\ \E hf_manager \in BOOLEAN, project_id \in projects, steps \in lists,
          gc \in GlobalContexts, run_id \in RunIds :
        ex' = Frame("begin", "service", run_id, hf_manager,
                    Pipeline(project_id, steps, gc))
    /\ UNCHANGED <<projects, runs, artifacts, next_run, step_history, n_ops>>
    /\ UNCHANGED other_vars

call_execute_pipeline == CallExecutePipeline(StepLists)
call_execute_pipeline_short == CallExecutePipeline(ShortStepLists)
call_execute_pipeline_few == CallExecutePipeline(FewStepLists)
call_execute_pipeline_two_kinds == CallExecutePipeline(TwoKindStepLists)

\* a second call of execute_pipeline on the service that has returned from
\* its first, with the run id of that call or another and a pipeline of at
\* most one step; earlier keeps the run id and the steps of the first call
call_execute_pipeline_again ==
    /\ ex.pc = "done"
    /\ ex.via = "service"
    /\ ex.earlier = <<>>
    /\ \E project_id \in projects, steps \in TwoKindStepLists \cap ShortStepLists,
          gc \in GlobalContexts, run_id \in 1..(MaxRuns + 1) :
        ex' = [Frame("begin", "service", run_id, ex.hf,
                     Pipeline(project_id, steps, gc))
                 EXCEPT !.earlier = Append(ex.earlier,
                            [run_id |-> ex.run_id, steps |-> ex.results.steps])]
    /\ UNCHANGED <<projects, runs, artifacts, next_run, step_history, n_ops>>
    /\ UNCHANGED other_vars

\* ------------------------------------- OrchestratorService.execute_pipeline
\* a history that is set only for a run id that has none
history_set_kept(h, run_id, value) ==
    [r \in DOMAIN h \cup {run_id} |-> IF r \in DOMAIN h THEN h[r] ELSE value]

\* self.step_history[run_id] = value on the service the call runs on
history_set(h, run_id, value) ==
    [r \in DOMAIN h \cup {run_id} |-> IF r = run_id THEN value ELSE h[r]]

\* the status column of a run, None when the run has no row
persisted_status(table, run_id) ==
    IF run_id \in DOMAIN table THEN Some(table[run_id].status) ELSE None

\* what a call of self._update_run(run_id, status) leaves in the frame:
\* the status, the status it found in the row, and whether the row took the
\* write
Updated(frame, table, status, ok) ==
    [frame EXCEPT !.updates = Append(@,
        [status |-> status, found |-> persisted_status(table, frame.run_id),
         ok |-> ok /\ frame.run_id \in DOMAIN table])]

\* lines 96-111
exec_begin ==
    /\ ex.pc = "begin"
    /\ \E ok \in BOOLEAN :
        /\ runs' = update_run(runs, ex.run_id, RUNNING, ok)
        /\ ex' = [Updated(ex, runs, RUNNING, ok) EXCEPT
                    !.pc = IF Len(ex.pipeline.steps) = 0
                           THEN "after_loop" ELSE "loop",
                    !.request_history = history_set(@, ex.run_id, <<>>),
                    !.execution_context = ex.pipeline.global_context]
    /\ step_history' = IF ex.via = "service"
                       THEN history_set(step_history, ex.run_id, <<>>)
                       ELSE step_history
    /\ UNCHANGED <<projects, artifacts, next_run, n_ops>>
    /\ UNCHANGED other_vars

\* lines 114-132: one turn of the loop
exec_step ==
    /\ ex.pc = "loop"
    /\ LET i == Len(ex.results.steps)
           step_input == ex.pipeline.steps[i + 1]
       IN \E outcome \in Outcomes(ex.hf) :
          \E step_output \in {execute_step(step_input, ex.execution_context,
                                             ex.hf, outcome)} :
          LET recorded == [ex EXCEPT
                  !.results.steps = Append(@, step_output),
                  !.request_history[ex.run_id] = Append(@, step_output),
                  !.calls = Append(@,
                      [i |-> i, context |-> ex.execution_context,
                       raised |-> ex.hf /\ HasHandler(step_input.model_type)
                                        /\ IsNone(outcome),
                       persisted |-> persisted_status(runs, ex.run_id),
                       saved |-> {}])]
              advanced == [recorded EXCEPT
                  !.execution_context =
                      dict_set(dict_set(@,
                          "step_" \o ToString(i) \o "_output",
                          OptStrVal(step_output.result)),
                          "step_" \o ToString(i) \o "_artifacts",
                          ListVal(step_output.artifacts)),
                  !.pc = IF i + 1 = Len(ex.pipeline.steps)
                         THEN "after_loop" ELSE "loop"]
          IN
          /\ step_history' = IF ex.via = "service"
                             THEN [step_history EXCEPT
                                      ![ex.run_id] = Append(@, step_output)]
                             ELSE step_history
          /\ IF StopsPipeline(step_output)
             THEN /\ \E ok \in BOOLEAN :
                        /\ runs' = update_run(runs, ex.run_id, FAILED, ok)
                        /\ ex' = [Updated(recorded, runs, FAILED, ok) EXCEPT
                              !.results.status = FAILED,
                              !.results.error =
                                  Some("Pipeline stopped at step '"
                                       \o step_input.step_name \o "': "
                                       \o PyStr(OptStrVal(step_output.error))),
                              !.pc = "after_loop"]
                  /\ UNCHANGED artifacts
             ELSE /\ \E saved \in SUBSET (1..Len(step_output.artifacts)) :
                        /\ artifacts' = save_artifacts(artifacts, ex.run_id,
                              ex.pipeline.project_id, step_output.artifacts, saved, 1)
                        /\ ex' = [advanced EXCEPT !.calls[i + 1].saved = saved]
                  /\ UNCHANGED runs
    /\ UNCHANGED <<projects, next_run, n_ops>>
    /\ UNCHANGED other_vars

\* the assembler run whatever the steps did
AssemblerDue_always(results) == TRUE

\* the assembler never run
AssemblerDue_never(results) == FALSE

\* line 135: the assembler runs when no step has set another status
AssemblerDue(results) == results.status = RUNNING

\* lines 134-153
exec_after_loop ==
    /\ ex.pc = "after_loop"
    /\ IF AssemblerDue(ex.results)
       THEN \E outcome \in Outcomes(ex.hf) :
            LET history == IF ex.via = "service"
                           THEN step_history[ex.run_id]
                           ELSE ex.request_history[ex.run_id]
            IN \E assembler_output \in {run_assembler(ex.hf, outcome, history)} :
               \E ok \in BOOLEAN :
               /\ runs' = update_run(runs, ex.run_id, SUCCESS, ok)
               /\ ex' = [Updated(ex, runs, SUCCESS, ok) EXCEPT
                      !.results.final_artifacts = assembler_output.artifacts,
                      !.results.assembled_code = Some(assembler_output.assembled_code),
                      !.results.status = SUCCESS,
                      !.results.finished_at = Some(Now),
                      !.assembler_calls = @ + 1,
                      !.assembler_at = Len(ex.results.steps),
                      !.assembler_error = assembler_output.error,
                      !.outcome = "returned",
                      !.pc = "done"]
       ELSE /\ ex' = [ex EXCEPT !.results.finished_at = Some(Now),
                                !.outcome = "returned",
                                !.pc = "done"]
            /\ UNCHANGED runs
    /\ UNCHANGED <<projects, artifacts, next_run, step_history, n_ops>>
    /\ UNCHANGED other_vars

\* --------------------------------------------------- the summary queries
\* a service that has forgotten the history of its runs
get_step_history_forgotten(history, run_id) == <<>>

\* OrchestratorService.get_step_history
get_step_history(history, run_id) ==
    IF run_id \in DOMAIN history THEN history[run_id] ELSE <<>>

\* sum(1 for step in history if step.status == status)
count_status(history, status) ==
    Cardinality({k \in 1..Len(history) : history[k].status = status})

\* OrchestratorService.get_run_summary; the execution times are not modelled
get_run_summary(history, run_id) ==
    LET steps == get_step_history(history, run_id)
    IN  [run_id |-> run_id,
         total_steps |-> Len(steps),
         successful_steps |-> count_status(steps, SUCCESS),
         failed_steps |-> count_status(steps, FAILED),
         steps |-> steps]

\* step_history of an OrchestratorService that __init__ has just built
FreshStepHistory == <<>>

\* an answer: who was asked ("service" the instance that ran the pipeline,
\* "route" the summary endpoint), the HTTP status, and the summary
Answer(via, run_id, code, body) ==
    [via |-> via, run_id |-> run_id, code |-> code, body |-> body]

\* get_run_summary(run_id) on the service instance that execute_pipeline
\* was called on
service_get_run_summary ==
    /\ ex.pc = "done"
    /\ ex.via = "service"
    /\ \E run_id \in RunIds :
        summary' = Some(Answer("service", run_id, 200,
                               Some(get_run_summary(step_history, run_id))))
    /\ UNCHANGED outside_query

\* GET /orchestrator/runs/{run_id}, routes.py lines 120-147: a 404 when the
\* run has no row; otherwise the summary of the service that
\* get_orchestrator_service builds for this request
query_run_summary ==
    /\ BetweenCalls
    /\ \E run_id \in RunIds :
        summary' =
            IF run_id \notin DOMAIN runs
            THEN Some(Answer("route", run_id, 404, None))
            ELSE Some(Answer("route", run_id, 200,
                             Some(get_run_summary(FreshStepHistory, run_id))))
    /\ UNCHANGED outside_query

\* ------------------------------------------- runtimes/manager.py
\* A coroutine runs from one await that suspends it to the next.  The
\* manager awaits the runtime's load() and unload(), which ModelRuntime
\* declares async: the caller is suspended there and the others run.

Finished(task, op, model, result) ==
    [op |-> op, model |-> model, pc |-> "idle", result |-> result, n |-> task.n + 1]

Suspended(task, op, model, pc) ==
    [op |-> op, model |-> model, pc |-> pc, result |-> "none", n |-> task.n]

\* runtime.load() is entered
load_entered(rts, m) == [rts EXCEPT ![m].load_calls = @ + 1]

\* runtime.load() comes back: True with is_loaded set, or False
load_returned(rts, m, success) ==
    IF success
    THEN [rts EXCEPT ![m].is_loaded = TRUE, ![m].loads_ok = @ + 1]
    ELSE rts

\* runtime.generate(): RuntimeError("Model not loaded") unless is_loaded
runtime_generate(rt) == IF rt.is_loaded THEN "text" ELSE "RuntimeError"

\* the calls the first k coroutines have made
RECURSIVE calls_made(_)
calls_made(k) == IF k = 0 THEN 0 ELSE tasks[k].n + calls_made(k - 1)

CanStart(t) == tasks[t].pc = "idle" /\ calls_made(Len(tasks)) < MaxCalls

\* self.loaded_models[model_name]
loaded_runtime(rts, held, m) == IF m \in DOMAIN held THEN held[m] ELSE rts[m]

\* register_model, lines 293-303, for a name that is registered already:
\* the runtime _create_runtime builds takes the place of the one in
\* runtimes, and loaded_models is not looked at; False, and nothing done,
\* for a runtime type _create_runtime does not support.  It is called
\* between the calls of the coroutines.
register_model ==
    \E t \in DOMAIN tasks, m \in Models, supported \in BOOLEAN :
        /\ CanStart(t)
        /\ \A u \in DOMAIN tasks : tasks[u].pc = "idle"
        /\ IF supported
           THEN /\ runtimes' = [runtimes EXCEPT ![m] = NewRuntime]
                /\ replaced' =
                    IF m \in loaded_models /\ m \notin DOMAIN replaced
                    THEN [n \in DOMAIN replaced \cup {m} |->
                            IF n = m THEN runtimes[m] ELSE replaced[n]]
                    ELSE replaced
                /\ tasks' = [tasks EXCEPT ![t] = Finished(@, "register_model", m, "True")]
           ELSE /\ tasks' = [tasks EXCEPT ![t] = Finished(@, "register_model", m, "False")]
                /\ UNCHANGED <<runtimes, replaced>>
        /\ UNCHANGED <<loaded_models, outside_runtime>>

\* a manager that does not look for the model before it loads it
already_loaded_never(loaded, m) == FALSE

\* line 316: if model_name in self.loaded_models
already_loaded(loaded, m) == m \in loaded

\* load_model, lines 314-323: up to the await of runtime.load()
load_model ==
    \E t \in DOMAIN tasks, m \in ModelNames :
        /\ CanStart(t)
        /\ IF already_loaded(loaded_models, m)
           THEN /\ tasks' = [tasks EXCEPT ![t] = Finished(@, "load_model", m, "True")]
                /\ UNCHANGED runtimes
           ELSE IF m \notin Models
           THEN /\ tasks' = [tasks EXCEPT ![t] = Finished(@, "load_model", m, "ValueError")]
                /\ UNCHANGED runtimes
           ELSE /\ tasks' = [tasks EXCEPT ![t] = Suspended(@, "load_model", m, "loading")]
                /\ runtimes' = load_entered(runtimes, m)
        /\ UNCHANGED <<loaded_models, replaced, outside_runtime>>

\* load_model, lines 323-328: from the return of runtime.load()
load_model_resume ==
    \E t \in DOMAIN tasks, success \in BOOLEAN :
        /\ tasks[t].pc = "loading"
        /\ tasks[t].op = "load_model"
        /\ LET m == tasks[t].model
           IN  /\ runtimes' = load_returned(runtimes, m, success)
               /\ loaded_models' = IF success THEN loaded_models \cup {m}
                                   ELSE loaded_models
               /\ tasks' = [tasks EXCEPT ![t] =
                        Finished(@, "load_model", m,
                                 IF success THEN "True" ELSE "False")]
        /\ UNCHANGED <<replaced, outside_runtime>>

\* unload_model, lines 330-334: up to the await of runtime.unload()
unload_model ==
    \E t \in DOMAIN tasks, m \in ModelNames :
        /\ CanStart(t)
        /\ tasks' = [tasks EXCEPT ![t] =
                IF m \in loaded_models
                THEN Suspended(@, "unload_model", m, "unloading")
                ELSE Finished(@, "unload_model", m, "None")]
        /\ UNCHANGED <<loaded_models, runtimes, replaced, outside_runtime>>

\* unload_model, lines 334-335: runtime.unload() has cleared is_loaded and
\* comes back, then del self.loaded_models[model_name]; the runtime is the
\* one loaded_models holds, which goes with the entry if runtimes has
\* another
unload_model_resume ==
    \E t \in DOMAIN tasks :
        /\ tasks[t].pc = "unloading"
        /\ LET m == tasks[t].model
           IN  /\ runtimes' = IF m \in DOMAIN replaced THEN runtimes
                              ELSE [runtimes EXCEPT ![m].is_loaded = FALSE,
                                                    ![m].unload_calls = @ + 1]
               /\ replaced' = [n \in DOMAIN replaced \ {m} |-> replaced[n]]
               /\ loaded_models' = loaded_models \ {m}
               /\ tasks' = [tasks EXCEPT ![t] =
                        Finished(@, "unload_model", m,
                                 IF m \in loaded_models THEN "None" ELSE "KeyError")]
        /\ UNCHANGED outside_runtime

\* generate, lines 337-347: the lookup and runtime.generate() when the model
\* is in loaded_models, and load_model up to its await when it is not
generate ==
    \E t \in DOMAIN tasks, m \in ModelNames :
        /\ CanStart(t)
        /\ IF m \in loaded_models
           THEN /\ tasks' = [tasks EXCEPT ![t] =
                        Finished(@, "generate", m,
                                 runtime_generate(loaded_runtime(runtimes, replaced, m)))]
                /\ UNCHANGED runtimes
           ELSE IF m \notin Models
           THEN /\ tasks' = [tasks EXCEPT ![t] = Finished(@, "generate", m, "ValueError")]
                /\ UNCHANGED runtimes
           ELSE /\ tasks' = [tasks EXCEPT ![t] = Suspended(@, "generate", m, "loading")]
                /\ runtimes' = load_entered(runtimes, m)
        /\ UNCHANGED <<loaded_models, replaced, outside_runtime>>

\* generate, lines 344-347: load_model comes back, then the lookup, a
\* KeyError when the name is not in loaded_models, and runtime.generate()
generate_resume ==
    \E t \in DOMAIN tasks, success \in BOOLEAN :
        /\ tasks[t].pc = "loading"
        /\ tasks[t].op = "generate"
        /\ LET m == tasks[t].model
               rts == load_returned(runtimes, m, success)
               loaded == IF success THEN loaded_models \cup {m} ELSE loaded_models
           IN  /\ runtimes' = rts
               /\ loaded_models' = loaded
               /\ tasks' = [tasks EXCEPT ![t] =
                        Finished(@, "generate", m,
                                 IF m \in loaded THEN runtime_generate(rts[m])
                                 ELSE "KeyError")]
        /\ UNCHANGED <<replaced, outside_runtime>>


\* ------------------------------------------------------ the project store
\* ProjectService (projects/service.py) over the tables project, context,
\* orchestrationrun and generatedartifact, and the Framer conversion
\* endpoint's writes to generatedartifact.  A row of context or of
\* generatedartifact is identified by its position in the table.

\* the project_id the Framer conversion endpoint saves under (routes.py
\* line 84): the all-zero UUID, which create_project never hands out
NilProject == 0

\* run_id = None of create_artifact
NoRun == 0

\* the outcome of a ProjectService call
Called(op, arg, existed, result) ==
    [op |-> op, arg |-> arg, existed |-> existed, result |-> result]

\* the foreign keys of model.py lines 27, 35 and 44-45: an INSERT whose
\* reference matches no row is rejected by an engine that checks them
fk_ok(project_id, run_id) ==
    \/ ~fk_enforced
    \/ /\ project_id \in projects
       /\ run_id = NoRun \/ run_id \in DOMAIN runs

\* the rows of a table that reference project p, and run r
rows_of_project(table, p) == {k \in DOMAIN table : table[k].project_id = p}
rows_of_run(table, r) == {k \in DOMAIN table : table[k].run_id = r}

\* a sequence without its k-th element
Without(seq, k) == SubSeq(seq, 1, k - 1) \o SubSeq(seq, k + 1, Len(seq))

\* ProjectService.create_project
create_project ==
    /\ BetweenCalls
    /\ \E project_id \in ProjectIds \ projects :
        /\ projects' = projects \cup {project_id}
        /\ store_call' = Called("create_project", project_id, FALSE, "created")
    /\ UNCHANGED <<runs, artifacts, contexts, fk_enforced>>
    /\ UNCHANGED outside_store

\* ProjectService.create_context: no look-up of the project precedes the
\* INSERT
create_context ==
    /\ BetweenCalls
    /\ Len(contexts) < MaxRows
    /\ \E project_id \in ProjectIds :
        IF fk_ok(project_id, NoRun)
        THEN /\ contexts' = Append(contexts, [project_id |-> project_id, key |-> "k"])
             /\ store_call' = Called("create_context", project_id,
                                     project_id \in projects, "created")
        ELSE /\ contexts' = contexts
             /\ store_call' = Called("create_context", project_id,
                                     FALSE, "IntegrityError")
    /\ UNCHANGED <<projects, runs, artifacts, fk_enforced>>
    /\ UNCHANGED outside_store

\* a look-up without its WHERE clause: the last row where the id has none
first_of_all(table, id) ==
    IF id \in DOMAIN table THEN Some(id)
    ELSE IF DOMAIN table # {} THEN Some(Cardinality(DOMAIN table)) ELSE None

\* session.exec(select(T).where(T.id == id)).first(), as get_context,
\* get_run and get_artifact make it: the row of that id, or None
first(table, id) == IF id \in DOMAIN table THEN Some(id) ELSE None

\* ProjectService.delete_context, for an id out of ids: False where
\* get_context finds no row
DeleteContext(ids) ==
    /\ BetweenCalls
    /\ \E k \in ids : \E found \in {first(contexts, k)} :
        IF IsNone(found)
        THEN /\ store_call' = Called("delete_context", k, FALSE, "False")
             /\ UNCHANGED contexts
        ELSE /\ contexts' = Without(contexts, Get(found))
             /\ store_call' = Called("delete_context", k, TRUE, "True")
    /\ UNCHANGED <<projects, runs, artifacts, fk_enforced>>
    /\ UNCHANGED outside_store

\* delete_context of a row that is there
delete_context == DeleteContext(DOMAIN contexts)

\* ProjectService.create_artifact
create_artifact ==
    /\ BetweenCalls
    /\ Len(artifacts) < MaxRows
    /\ \E project_id \in ProjectIds, run_id \in RunIds \cup {NoRun} :
        IF fk_ok(project_id, run_id)
        THEN /\ artifacts' = Append(artifacts,
                    [project_id |-> project_id, run_id |-> run_id,
                     name |-> "n", path |-> "p", content |-> "c",
                     type |-> "file", source |-> "projects"])
             /\ store_call' = Called("create_artifact", project_id,
                                     project_id \in projects, "created")
        ELSE /\ artifacts' = artifacts
             /\ store_call' = Called("create_artifact", project_id,
                                     FALSE, "IntegrityError")
    /\ UNCHANGED <<projects, runs, contexts, fk_enforced>>
    /\ UNCHANGED outside_store

\* ProjectService.delete_artifact, likewise
DeleteArtifact(ids) ==
    /\ BetweenCalls
    /\ \E k \in ids : \E found \in {first(artifacts, k)} :
        IF IsNone(found)
        THEN /\ store_call' = Called("delete_artifact", k, FALSE, "False")
             /\ UNCHANGED artifacts
        ELSE /\ artifacts' = Without(artifacts, Get(found))
             /\ store_call' = Called("delete_artifact", k, TRUE, "True")
    /\ UNCHANGED <<projects, runs, contexts, fk_enforced>>
    /\ UNCHANGED outside_store

delete_artifact == DeleteArtifact(DOMAIN artifacts)

\* the cascade statements of delete_project (lines 88-98) and delete_run
\* (lines 233-235): session.exec(select(...)) returns the result of the
\* SELECT, which has no delete method, so the statement raises
\* AttributeError before any row is removed
cascade_raises == TRUE

\* ProjectService.delete_project: False for a project that is not there;
\* for one that is, the cascade statements run before session.delete
delete_project ==
    /\ BetweenCalls
    /\ \E project_id \in ProjectIds :
        IF project_id \notin projects
        THEN /\ store_call' = Called("delete_project", project_id, FALSE, "False")
             /\ UNCHANGED <<projects, runs, artifacts, contexts>>
        ELSE IF cascade_raises
        THEN /\ store_call' = Called("delete_project", project_id, TRUE,
                                     "AttributeError")
             /\ UNCHANGED <<projects, runs, artifacts, contexts>>
        ELSE /\ contexts' = SelectSeq(contexts, LAMBDA c : c.project_id # project_id)
             /\ runs' = [r \in {q \in DOMAIN runs : runs[q].project_id # project_id}
                            |-> runs[r]]
             /\ artifacts' = SelectSeq(artifacts, LAMBDA a : a.project_id # project_id)
             /\ projects' = projects \ {project_id}
             /\ store_call' = Called("delete_project", project_id, TRUE, "True")
    /\ UNCHANGED fk_enforced
    /\ UNCHANGED outside_store

\* ProjectService.delete_run, likewise
delete_run ==
    /\ BetweenCalls
    /\ \E run_id \in RunIds :
        IF run_id \notin DOMAIN runs
        THEN /\ store_call' = Called("delete_run", run_id, FALSE, "False")
             /\ UNCHANGED <<runs, artifacts>>
        ELSE IF cascade_raises
        THEN /\ store_call' = Called("delete_run", run_id, TRUE, "AttributeError")
             /\ UNCHANGED <<runs, artifacts>>
        ELSE /\ artifacts' = SelectSeq(artifacts, LAMBDA a : a.run_id # run_id)
             /\ runs' = [r \in DOMAIN runs \ {run_id} |-> runs[r]]
             /\ store_call' = Called("delete_run", run_id, TRUE, "True")
    /\ UNCHANGED <<projects, contexts, fk_enforced>>
    /\ UNCHANGED outside_store

\* what convert_artifacts_to_framer hands to the save loop: a SUCCESS
\* result with no secondary artifact, and one with a stylesheet
FramerResults ==
    { [component_name |-> "Button", framer_code |-> "f", artifacts |-> <<>>],
      [component_name |-> "Card", framer_code |-> "f",
       artifacts |-> << [type |-> "css", name |-> "Card.module.css",
                         content |-> "s"] >>] }

\* the rows save_framer_component adds to the session (framer/service.py
\* lines 787-811): the component, then its secondary artifacts
RECURSIVE secondary_rows(_, _, _, _)
secondary_rows(run_id, project_id, secondary, k) ==
    IF k > Len(secondary) THEN <<>>
    ELSE << [project_id |-> project_id, run_id |-> run_id,
             name |-> secondary[k].name, path |-> "",
             content |-> secondary[k].content,
             type |-> secondary[k].type, source |-> "framer"] >>
         \o secondary_rows(run_id, project_id, secondary, k + 1)

framer_rows(run_id, project_id, result) ==
    << [project_id |-> project_id, run_id |-> run_id,
        name |-> result.component_name \o ".framer.tsx", path |-> "",
        content |-> result.framer_code,
        type |-> "framer_component", source |-> "framer"] >>
    \o secondary_rows(run_id, project_id, result.artifacts, 1)

\* POST /api/v1/framer/convert with one artifact that converts: the save of
\* lines 80-86 under the all-zero project id.  The commit is rejected where
\* foreign keys are checked, save_framer_component rolls back and re-raises,
\* and the route answers 500
convert_to_framer ==
    /\ BetweenCalls
    /\ \E run_id \in RunIds, result \in FramerResults :
        LET rows == framer_rows(run_id, NilProject, result) IN
        /\ Len(artifacts) + Len(rows) <= MaxRows
        /\ IF fk_ok(NilProject, run_id)
           THEN /\ artifacts' = artifacts \o rows
                /\ store_call' = Called("convert_to_framer", run_id,
                                        run_id \in DOMAIN runs, "SUCCESS")
           ELSE /\ artifacts' = artifacts
                /\ store_call' = Called("convert_to_framer", run_id,
                                        run_id \in DOMAIN runs, "500")
    /\ UNCHANGED <<projects, runs, contexts, fk_enforced>>
    /\ UNCHANGED outside_store

\* the ids a caller may hand in: those of the rows and one of no row
RowIds == 1..(MaxRows + 1)

delete_context_any == DeleteContext(RowIds)
delete_artifact_any == DeleteArtifact(RowIds)

\* ProjectService.get_project
get_project ==
    /\ BetweenCalls
    /\ \E project_id \in ProjectIds :
        store_call' = Called("get_project", project_id, project_id \in projects,
                             IF project_id \in projects THEN "found" ELSE "None")
    /\ UNCHANGED <<projects, runs, artifacts, contexts, fk_enforced>>
    /\ UNCHANGED outside_store

\* ProjectService.update_project: None for a project that is not there; of
\* one that is, the fields it sets are not part of the model
update_project ==
    /\ BetweenCalls
    /\ \E project_id \in ProjectIds :
        store_call' = Called("update_project", project_id, project_id \in projects,
                             IF project_id \in projects THEN "updated" ELSE "None")
    /\ UNCHANGED <<projects, runs, artifacts, contexts, fk_enforced>>
    /\ UNCHANGED outside_store

\* ProjectService.get_context
get_context ==
    /\ BetweenCalls
    /\ \E k \in RowIds :
        store_call' = Called("get_context", k, k \in DOMAIN contexts,
                             IF IsNone(first(contexts, k)) THEN "None" ELSE "found")
    /\ UNCHANGED <<projects, runs, artifacts, contexts, fk_enforced>>
    /\ UNCHANGED outside_store

\* ProjectService.update_context(context_id, value=...): None for a context
\* that is not there; of one that is, the key is left and the value is not
\* part of the model
update_context ==
    /\ BetweenCalls
    /\ \E k \in RowIds :
        store_call' = Called("update_context", k, k \in DOMAIN contexts,
                             IF IsNone(first(contexts, k)) THEN "None" ELSE "updated")
    /\ UNCHANGED <<projects, runs, artifacts, contexts, fk_enforced>>
    /\ UNCHANGED outside_store

\* ProjectService.get_run
get_run ==
    /\ BetweenCalls
    /\ \E run_id \in RunIds :
        store_call' = Called("get_run", run_id, run_id \in DOMAIN runs,
                             IF IsNone(first(runs, run_id)) THEN "None" ELSE "found")
    /\ UNCHANGED <<projects, runs, artifacts, contexts, fk_enforced>>
    /\ UNCHANGED outside_store

\* ProjectService.update_run_status(run_id, "RUNNING") as a call whose
\* answer is kept: None where get_run finds no row
run_status_update ==
    /\ BetweenCalls
    /\ \E run_id \in RunIds : \E found \in {first(runs, run_id)} :
        IF IsNone(found)
        THEN /\ store_call' = Called("update_run_status", run_id, FALSE, "None")
             /\ UNCHANGED runs
        ELSE /\ runs' = set_run_status(runs, Get(found), RUNNING, FALSE)
             /\ store_call' = Called("update_run_status", run_id,
                                     run_id \in DOMAIN runs, "updated")
    /\ UNCHANGED <<projects, artifacts, contexts, fk_enforced>>
    /\ UNCHANGED outside_store

\* ProjectService.get_artifact
get_artifact ==
    /\ BetweenCalls
    /\ \E k \in RowIds :
        store_call' = Called("get_artifact", k, k \in DOMAIN artifacts,
                             IF IsNone(first(artifacts, k)) THEN "None" ELSE "found")
    /\ UNCHANGED <<projects, runs, artifacts, contexts, fk_enforced>>
    /\ UNCHANGED outside_store

\* ProjectService.update_artifact(artifact_id, name)
update_artifact ==
    /\ BetweenCalls
    /\ \E k \in RowIds : \E found \in {first(artifacts, k)} :
        IF IsNone(found)
        THEN /\ store_call' = Called("update_artifact", k, FALSE, "None")
             /\ UNCHANGED artifacts
        ELSE /\ artifacts' = [artifacts EXCEPT ![Get(found)].name = "n2"]
             /\ store_call' = Called("update_artifact", k, k \in DOMAIN artifacts,
                                     "updated")
    /\ UNCHANGED <<projects, runs, contexts, fk_enforced>>
    /\ UNCHANGED outside_store

\* the store under either kind of engine: SQLite checks foreign keys only
\* after PRAGMA foreign_keys=ON, which nothing in the repository issues
InitStoreEngine ==
    /\ InitOrchestrator
    /\ InitRuntimeManager(0)
    /\ \E enforced \in BOOLEAN : InitStore(enforced)
    /\ extraction = NoExtraction
    /\ conversion = NoConversion

NextStore ==
    \/ create_project
    \/ create_context
    \/ delete_context
    \/ create_run_default
    \/ create_artifact
    \/ delete_artifact
    \/ delete_project
    \/ delete_run
    \/ convert_to_framer

SpecStore == InitStoreEngine /\ [][NextStore]_vars

\* the store under its look-ups, updates and deletions by id
NextLookups ==
    \/ create_context
    \/ create_run_default
    \/ create_artifact
    \/ get_project
    \/ update_project
    \/ delete_project
    \/ get_context
    \/ update_context
    \/ delete_context_any
    \/ get_run
    \/ run_status_update
    \/ delete_run
    \/ get_artifact
    \/ update_artifact
    \/ delete_artifact_any

SpecLookups == Init /\ [][NextLookups]_vars


\* ------------------------------------------- _extract_artifacts, applied
\* The texts a model returns, assembled from segments: a line of prose, or
\* a fenced block, an opening fence with its tag, an interior without a
\* fence, and a closing fence.  The interior is a core between two runs of
\* whitespace; the tags are those the extractor looks for (lines 338-367)
\* and two it does not, of which python3 begins with one it does.
RecognizedKinds == {"jsx", "tsx", "css", "python"}
OtherKinds == {"bash", "python3"}

Interiors ==
    { [pre |-> "\n", core |-> "A", post |-> "\n"],
      [pre |-> "\n  ", core |-> "B c", post |-> " \n"],
      [pre |-> "\n", core |-> "", post |-> ""] }

Block(kind, interior) == [kind |-> kind, interior |-> interior]
Prose == [kind |-> "prose", interior |-> [pre |-> "", core |-> "text", post |-> ""]]

Segments ==
    {Prose}
    \cup {Block(kind, i) : kind \in RecognizedKinds, i \in Interiors}
    \cup {Block(kind, CHOOSE i \in Interiors : i.core = "A") : kind \in OtherKinds}

\* the text of one segment, and of a list of segments, one per line
render_segment(g) ==
    IF g.kind = "prose" THEN g.interior.core
    ELSE IF g.kind = "unclosed"
    THEN Fence \o g.opens \o g.interior.pre \o g.interior.core \o g.interior.post
    ELSE Fence \o g.kind \o g.interior.pre \o g.interior.core
               \o g.interior.post \o Fence

RECURSIVE render(_, _)
render(segments, k) ==
    IF k > Len(segments) THEN ""
    ELSE render_segment(segments[k])
         \o (IF k < Len(segments) THEN "\n" ELSE "")
         \o render(segments, k + 1)

StepNames == {"a", "step1"}

\* the arguments of a call
InitExtraction ==
    \E step_name \in StepNames, segments \in SeqsUpTo(Segments, MaxSegments) :
        extraction = [step_name |-> step_name, segments |-> segments,
                      result |-> render(segments, 1), artifacts |-> None]

InitExtract ==
    /\ InitOrchestrator
    /\ InitRuntimeManager(0)
    /\ InitStore(TRUE)
    /\ InitExtraction
    /\ conversion = NoConversion

\* self._extract_artifacts(step_name, result)
call_extract_artifacts ==
    /\ IsNone(extraction.artifacts)
    /\ extraction' = [extraction EXCEPT
            !.artifacts = Some(extract_artifacts(extraction.step_name,
                                                 extraction.result))]
    /\ UNCHANGED outside_extraction

NextExtract == call_extract_artifacts

SpecExtract == InitExtract /\ [][NextExtract]_vars

\* texts with fences that are not well-formed top-level blocks: an opening
\* fence that is never closed, and a block that holds another fenced block
PlainInterior == CHOOSE i \in Interiors : i.core = "A"

Unclosed(kind) == [kind |-> "unclosed", opens |-> kind, interior |-> PlainInterior]

Nested(outer, inner) ==
    Block(outer, [pre |-> "\n",
                  core |-> render_segment(Block(inner, PlainInterior)),
                  post |-> "\n"])

FenceSegments ==
    {Prose, Block("jsx", PlainInterior), Block("css", PlainInterior),
     Unclosed("jsx"), Nested("jsx", "css")}

InitFences ==
    /\ InitOrchestrator
    /\ InitRuntimeManager(0)
    /\ InitStore(TRUE)
    /\ \E step_name \in StepNames, segments \in SeqsUpTo(FenceSegments, MaxSegments) :
        extraction = [step_name |-> step_name, segments |-> segments,
                      result |-> render(segments, 1), artifacts |-> None]
    /\ conversion = NoConversion

SpecFences == InitFences /\ [][NextExtract]_vars


\* ------------------------------------------------------ framer/service.py
\* An artifact dict of the request: its type, name and content, each a str
\* or null.  The rewriting passes are text to text; of a result the model
\* keeps what identifies it and whether the passes completed.

\* s.replace(old, "")
RECURSIVE PyRemove(_, _)
PyRemove(s, old) ==
    LET p == IndexOf(s, old, 1)
    IN  IF p = 0 THEN s
        ELSE SubSeq(s, 1, p - 1)
             \o PyRemove(SubSeq(s, p + Len(old), Len(s)), old)

\* the first statement of _process_single_artifact that raises, if one
\* does: .replace on a name that is null (line 169), .lower on a content
\* that is null (line 264, from line 173)
processing_error(artifact) ==
    IF IsNone(artifact.name)
    THEN Some("'NoneType' object has no attribute 'replace'")
    ELSE IF IsNone(artifact.content)
    THEN Some("'NoneType' object has no attribute 'lower'")
    ELSE None

\* FramerExportResult
FramerExportResult(run_id, component_id, component_name, framer_code, status, error) ==
    [run_id |-> run_id, component_id |-> component_id,
     component_name |-> component_name, framer_code |-> framer_code,
     status |-> status, error |-> error]

\* what a call hands back: a value, or the exception that leaves it
Returns(value) == [raised |-> FALSE, value |-> value]
Raises(error) == [raised |-> TRUE, value |-> error]

\* _process_single_artifact without its try: the exception leaves the call
process_single_artifact_propagating(run_id, artifact) ==
    LET error == processing_error(artifact)
        component_name == PyRemove(PyRemove(Get(artifact.name), ".jsx"), ".tsx")
    IN  IF IsNone(error)
        THEN Returns(FramerExportResult(run_id, Some(component_name),
                        Some(component_name),
                        "framer(" \o Get(artifact.content) \o ")", SUCCESS, None))
        ELSE Raises(Get(error))

\* _process_single_artifact: the except of lines 218-230 turns every
\* exception of the passes into a FAILED result under the artifact's name
process_single_artifact(run_id, artifact) ==
    LET error == processing_error(artifact)
        component_name == PyRemove(PyRemove(Get(artifact.name), ".jsx"), ".tsx")
    IN  IF IsNone(error)
        THEN Returns(FramerExportResult(run_id, Some(component_name),
                        Some(component_name),
                        "framer(" \o Get(artifact.content) \o ")", SUCCESS, None))
        ELSE Returns(FramerExportResult(run_id, artifact.name, artifact.name,
                        "", FAILED, error))

\* the loop of lines 122-131 from position k on, results so far in done; an
\* exception that reaches the loop ends it
RECURSIVE convert_loop(_, _, _, _)
convert_loop(run_id, input, k, done) ==
    IF k > Len(input) THEN Returns(done)
    ELSE IF input[k].type \notin {Some("jsx"), Some("tsx")}
    THEN convert_loop(run_id, input, k + 1, done)
    ELSE LET result == process_single_artifact(run_id, input[k])
         IN  IF result.raised THEN result
             ELSE convert_loop(run_id, input, k + 1, Append(done, result.value))

\* convert_artifacts_to_framer: the results of the loop, or, from the
\* except of lines 135-147, one FAILED result in place of them all
convert_artifacts_to_framer(run_id, input) ==
    LET looped == convert_loop(run_id, input, 1, <<>>)
    IN  IF looped.raised
        THEN << FramerExportResult(run_id, Some("error"), Some("Error"), "",
                                   FAILED, Some(looped.value)) >>
        ELSE looped.value

ArtifactDicts ==
    [type : {Some("jsx"), Some("tsx"), Some("css"), None},
     name : {Some("Button.jsx"), Some("Card.tsx"), None},
     content : {Some("<div/>"), None}]

\* the arguments of a call
InitConversion ==
    \E run_id \in RunIds, input \in SeqsUpTo(ArtifactDicts, MaxArtifacts) :
        conversion = [run_id |-> run_id, artifacts |-> input, results |-> None]

InitFramer ==
    /\ InitOrchestrator
    /\ InitRuntimeManager(0)
    /\ InitStore(TRUE)
    /\ extraction = NoExtraction
    /\ InitConversion

\* generator.convert_artifacts_to_framer(run_id, artifacts)
call_convert_artifacts_to_framer ==
    /\ IsNone(conversion.results)
    /\ conversion' = [conversion EXCEPT
            !.results = Some(convert_artifacts_to_framer(conversion.run_id,
                                                         conversion.artifacts))]
    /\ UNCHANGED outside_conversion

NextFramer == call_convert_artifacts_to_framer

SpecFramer == InitFramer /\ [][NextFramer]_vars

\* ------------------------------------------------------ specifications
\* the run controller on every step list, beside runs created with the
\* default status
Next ==
    \/ create_run_default
    \/ submit
    \/ call_execute_pipeline
    \/ exec_begin
    \/ exec_step
    \/ exec_after_loop

Spec == Init /\ [][Next]_vars

\* the run table under all of its writers, the run controller on step lists
\* of at most one step
NextRuns ==
    \/ create_run
    \/ update_run_status
    \/ submit_short
    \/ call_execute_pipeline_short
    \/ exec_begin
    \/ exec_step
    \/ exec_after_loop

SpecRuns == Init /\ [][NextRuns]_vars

\* the run controller followed by the summary queries
NextSummary ==
    \/ create_run_default
    \/ submit_few
    \/ call_execute_pipeline_few
    \/ exec_begin
    \/ exec_step
    \/ exec_after_loop
    \/ service_get_run_summary
    \/ query_run_summary

SpecSummary == Init /\ [][NextSummary]_vars

\* one service called twice
NextAgain ==
    \/ call_execute_pipeline_two_kinds
    \/ call_execute_pipeline_again
    \/ exec_begin
    \/ exec_step
    \/ exec_after_loop

SpecAgain == Init /\ [][NextAgain]_vars

\* the RuntimeManager under one coroutine or several
InitRuntime ==
    /\ InitOrchestrator
    /\ \E callers \in 1..MaxTasks : InitRuntimeManager(callers)
    /\ InitStore(TRUE)
    /\ extraction = NoExtraction
    /\ conversion = NoConversion

NextRuntime ==
    \/ load_model
    \/ load_model_resume
    \/ unload_model
    \/ unload_model_resume
    \/ generate
    \/ generate_resume

SpecRuntime == InitRuntime /\ [][NextRuntime]_vars

\* the RuntimeManager under one coroutine that registers models as well
InitRegistry ==
    /\ InitOrchestrator
    /\ InitRuntimeManager(1)
    /\ InitStore(TRUE)
    /\ extraction = NoExtraction
    /\ conversion = NoConversion

NextRegistry ==
    \/ register_model
    \/ load_model
    \/ load_model_resume
    \/ unload_model
    \/ unload_model_resume
    \/ generate
    \/ generate_resume

SpecRegistry == InitRegistry /\ [][NextRegistry]_vars

\* ---------------------------------------------------------- properties
\* the model types _execute_step has a branch for
SupportedModelTypes == {"CodeLlama", "CodeGemma", "T5Gemma"}

\* execute_pipeline has returned its results to the caller
Returned == ex.pc = "done" /\ ex.outcome = "returned"

InputSteps == ex.pipeline.steps
ResultSteps == ex.results.steps

\* positions (0-indexed) of the input steps that fail when executed
FailingPositions ==
    {k \in 0..(Len(InputSteps) - 1) :
        InputSteps[k + 1].model_type \notin SupportedModelTypes}

FirstFailing == CHOOSE k \in FailingPositions : \A j \in FailingPositions : k <= j

AllSucceeded ==
    /\ Len(ResultSteps) = Len(InputSteps)
    /\ \A k \in 1..Len(ResultSteps) : ResultSteps[k].status = SUCCESS

\* C1: for every step list of well-formed steps (a step name, a prompt, a
\* model_type out of the ModelType enum) execute_pipeline returns status
\* SUCCESS and as many step results as there are input steps.
C1_EnumStepsSucceed ==
    (/\ Returned
     /\ \A k \in 1..Len(InputSteps) :
            /\ InputSteps[k].model_type \in ModelType
            /\ Len(InputSteps[k].step_name) >= 1
            /\ Len(InputSteps[k].prompt) >= 10)
    => /\ ex.results.status = SUCCESS
       /\ Len(ResultSteps) = Len(InputSteps)

\* C2: fail-fast.  When the first failing step is at position k, no step
\* after k is ever executed, and the call returns k+1 step results, the last
\* one FAILED and those before it SUCCESS, with run status FAILED.
C2_FailFast ==
    FailingPositions # {} =>
        /\ \A c \in 1..Len(ex.calls) : ex.calls[c].i <= FirstFailing
        /\ Len(ResultSteps) <= FirstFailing + 1
        /\ Returned =>
            /\ Len(ResultSteps) = FirstFailing + 1
            /\ Len(ex.calls) = FirstFailing + 1
            /\ ResultSteps[FirstFailing + 1].status = FAILED
            /\ \A k \in 1..FirstFailing : ResultSteps[k].status = SUCCESS
            /\ ex.results.status = FAILED

C2_Witness ==
    /\ Returned
    /\ Len(InputSteps) = 2
    /\ FailingPositions # {}
    /\ FirstFailing = 0
    /\ Len(ResultSteps) = 1

\* C3: the assembler is invoked at most once, only after the result of the
\* last step was recorded and only when every step succeeded; a call that
\* has returned invoked it exactly once if every step succeeded and not at
\* all if a step failed.
C3_AssemblerOnce ==
    /\ ex.assembler_calls <= 1
    /\ ex.assembler_calls = 1 =>
        /\ ex.assembler_at = Len(InputSteps)
        /\ AllSucceeded
    /\ Returned => (ex.assembler_calls = 1 <=> AllSucceeded)
    /\ (\E k \in 1..Len(ResultSteps) : ResultSteps[k].status = FAILED)
            => ex.assembler_calls = 0

C3_Witness ==
    /\ Returned
    /\ Len(InputSteps) = 2
    /\ AllSucceeded
    /\ ex.assembler_calls = 1
    /\ ex.assembler_at = 2

\* C4: the persisted status of a run only moves along PENDING -> RUNNING ->
\* one of SUCCESS, FAILED: a run the submission endpoint creates is PENDING,
\* and no write changes a status that is SUCCESS or FAILED.
C4_StatusOrder ==
    [][\A r \in DOMAIN runs' :
          IF r \in DOMAIN runs
          THEN \/ runs'[r].status = runs[r].status
               \/ <<runs[r].status, runs'[r].status>> \in
                    {<<PENDING, RUNNING>>, <<RUNNING, SUCCESS>>, <<RUNNING, FAILED>>}
          ELSE ex'.via = "route" /\ ex'.run_id = r => runs'[r].status = PENDING]_vars

\* C5: in every state of the run table, finished_at of a run is set if and
\* only if its status is SUCCESS or FAILED.
C5_FinishedIffTerminal ==
    \A r \in DOMAIN runs :
        ~IsNone(runs[r].finished_at) <=> runs[r].status \in {SUCCESS, FAILED}

\* the backend call of the step recorded at position c of the results raised
BackendRaisedAt(c) == c <= Len(ex.calls) /\ ex.calls[c].raised

\* C6 as stated: a step whose backend call raised is recorded FAILED with an
\* error message, and the run returns FAILED with an error string.
C6_BackendErrorFailsStep ==
    \A c \in 1..Len(ResultSteps) :
        BackendRaisedAt(c) =>
            /\ ResultSteps[c].status = FAILED
            /\ ~IsNone(ResultSteps[c].error)
            /\ Returned => /\ ex.results.status = FAILED
                           /\ ~IsNone(ex.results.error)

\* C6 amended: a step whose backend call raised is recorded SUCCESS with a
\* result and no error.  The step-execution error that is recorded is the
\* unknown model type: such a step is FAILED with a message, and the run
\* returns FAILED, with an error string that names the step and carries the
\* message, exactly when a step was recorded FAILED.
C6_BackendErrorSwallowed ==
    /\ \A c \in 1..Len(ResultSteps) :
        /\ BackendRaisedAt(c) =>
            /\ ResultSteps[c].status = SUCCESS
            /\ IsNone(ResultSteps[c].error)
            /\ ~IsNone(ResultSteps[c].result)
        /\ ResultSteps[c].status = FAILED =>
            /\ InputSteps[c].model_type \notin SupportedModelTypes
            /\ ~IsNone(ResultSteps[c].error)
            /\ Contains(Get(ResultSteps[c].error), "Unknown model type")
            /\ Returned =>
                /\ ex.results.status = FAILED
                /\ ex.results.error =
                     Some("Pipeline stopped at step '" \o InputSteps[c].step_name
                          \o "': " \o Get(ResultSteps[c].error))
    /\ (Returned /\ ex.results.status = FAILED) =>
            \E c \in 1..Len(ResultSteps) : ResultSteps[c].status = FAILED

C6_Witness ==
    /\ Returned
    /\ Len(ResultSteps) = 2
    /\ BackendRaisedAt(1)
    /\ ResultSteps[1].status = SUCCESS
    /\ ResultSteps[2].status = FAILED

\* the prompt _execute_step handed to the handler of the step at position c
EnrichedPromptAt(c) == inject_context(InputSteps[c].prompt, ex.calls[c].context)

\* C7: a step of a supported model type whose backend is absent, or raises,
\* is SUCCESS, and its result is "[<model>] Placeholder response to: ", then
\* the first 100 characters of the context-enriched prompt (all of it when
\* it is shorter), then "...".
C7_PlaceholderFallback ==
    \A c \in 1..Len(ResultSteps) :
        (/\ InputSteps[c].model_type \in SupportedModelTypes
         /\ (~ex.hf \/ BackendRaisedAt(c)))
        => \A enriched \in {EnrichedPromptAt(c)} :
              /\ ResultSteps[c].status = SUCCESS
              /\ IsNone(ResultSteps[c].error)
              /\ ResultSteps[c].result =
                    Some("[" \o InputSteps[c].model_type
                         \o "] Placeholder response to: "
                         \o SubSeq(enriched, 1, Min(Len(enriched), 100)) \o "...")

C7_Witness ==
    /\ ex.hf
    /\ Len(ResultSteps) = 2
    /\ BackendRaisedAt(2)
    /\ InputSteps[2].model_type = "CodeGemma"
    /\ Len(EnrichedPromptAt(2)) > 100
    /\ ResultSteps[2].status = SUCCESS

\* C8: a submission to an existing project whose only step has a model_type
\* without a handler ends in a returned result with run status FAILED and
\* one step result, FAILED, whose error contains "Unknown model type".
C8_UnknownModelTypeResult ==
    (/\ ex.via = "route"
     /\ ex.pc = "done"
     /\ ex.pipeline.project_id \in projects
     /\ Len(InputSteps) = 1
     /\ InputSteps[1].model_type \notin SupportedModelTypes)
    => /\ Returned
       /\ ex.results.status = FAILED
       /\ Len(ResultSteps) = 1
       /\ ResultSteps[1].status = FAILED
       /\ ~IsNone(ResultSteps[1].error)
       /\ Contains(Get(ResultSteps[1].error), "Unknown model type")

\* C9 as stated: when the assembler's generation call raised, the call
\* returns SUCCESS with an empty assembled text and no final artifacts, and
\* the row of the run holds SUCCESS.
C9_AssemblerErrorPersisted ==
    (/\ Returned
     /\ ~IsNone(ex.assembler_error)
     /\ ex.run_id \in DOMAIN runs)
    => /\ ex.results.assembled_code = Some("")
       /\ ex.results.final_artifacts = <<>>
       /\ ex.results.status = SUCCESS
       /\ runs[ex.run_id].status = SUCCESS

\* C9 amended: when the assembler's generation call raises, _run_assembler
\* gives an empty text, no artifacts and an error, the call returns SUCCESS
\* with empty final_artifacts, and the run table is left as it was or the
\* row of the run is written SUCCESS with its finish time: never FAILED.
C9_AssemblerErrorKeepsSuccess ==
    [][(ex.pc = "after_loop" /\ ~IsNone(ex'.assembler_error)) =>
          /\ ex'.pc = "done" /\ ex'.outcome = "returned"
          /\ ex'.results.assembled_code = Some("")
          /\ ex'.results.final_artifacts = <<>>
          /\ ex'.results.status = SUCCESS
          /\ \/ runs' = runs
             \/ /\ ex.run_id \in DOMAIN runs
                /\ runs' = [runs EXCEPT ![ex.run_id].status = SUCCESS,
                                        ![ex.run_id].finished_at = Some(Now)]]_vars

C9_Witness ==
    /\ Returned
    /\ ~IsNone(ex.assembler_error)
    /\ ex.results.status = SUCCESS
    /\ ex.run_id \in DOMAIN runs
    /\ runs[ex.run_id].status = SUCCESS

\* execute_pipeline was entered by the call the frame belongs to
Entered == ex.run_id \in DOMAIN ex.request_history

\* C10: a call of execute_pipeline ends by returning, and what it returns
\* has status SUCCESS or FAILED and carries started_at and finished_at,
\* whatever failed in the steps, the assembler or the writes.  On its way
\* the loop never indexes past the step list and the assembler finds the
\* history of the run, the two lookups of the method that could raise.
C10_AlwaysStructured ==
    /\ ex.pc = "loop" => Len(ResultSteps) < Len(InputSteps)
    /\ (ex.pc = "after_loop" /\ AssemblerDue(ex.results)) =>
            IF ex.via = "service"
            THEN ex.run_id \in DOMAIN step_history
            ELSE ex.run_id \in DOMAIN ex.request_history
    /\ (ex.pc = "done" /\ Entered) =>
        /\ ex.outcome = "returned"
        /\ ex.results.status \in {SUCCESS, FAILED}
        /\ ~IsNone(ex.results.started_at)
        /\ ~IsNone(ex.results.finished_at)

\* a step's backend call and the assembler's raised, and no status write
\* reached the row of the run
C10_Witness ==
    /\ Returned
    /\ Entered
    /\ BackendRaisedAt(1)
    /\ ~IsNone(ex.assembler_error)
    /\ ex.run_id \in DOMAIN runs
    /\ runs[ex.run_id].status = PENDING

\* the last answer came from who and was about the run just executed
AnsweredBy(via) ==
    /\ Returned
    /\ ex.via = via
    /\ ~IsNone(summary)
    /\ Get(summary).via = via
    /\ Get(summary).run_id = ex.run_id

\* C11: a summary query that follows a run executed through the submission
\* endpoint answers with total_steps equal to the number of steps the run
\* executed, the matching successful and failed counts and the ordered step
\* results of the run.
C11_SummaryAfterSubmission ==
    AnsweredBy("route") =>
        /\ Get(summary).code = 200
        /\ LET body == Get(Get(summary).body)
           IN  /\ body.total_steps = Len(ResultSteps)
               /\ body.successful_steps = count_status(ResultSteps, SUCCESS)
               /\ body.failed_steps = count_status(ResultSteps, FAILED)
               /\ body.steps = ResultSteps

\* C15: after execute_pipeline(run_id) on a service instance, its
\* get_run_summary(run_id) has total_steps equal to the length of the
\* returned step list, successful_steps + failed_steps = total_steps, at most
\* one failed step, which is then the last entry, and the step results in
\* execution order.
C15_SummaryOnInstance ==
    AnsweredBy("service") =>
        LET body == Get(Get(summary).body)
        IN  /\ body.total_steps = Len(ResultSteps)
            /\ body.successful_steps + body.failed_steps = body.total_steps
            /\ body.failed_steps <= 1
            /\ body.failed_steps = 1 =>
                    body.steps[Len(body.steps)].status = FAILED
            /\ \A k \in 1..Len(body.steps) :
                    /\ body.steps[k] = ResultSteps[k]
                    /\ body.steps[k].step_name = InputSteps[k].step_name
            /\ get_step_history(step_history, ex.run_id) = ResultSteps

C15_Witness ==
    /\ AnsweredBy("service")
    /\ Get(Get(summary).body).total_steps = 2
    /\ Get(Get(summary).body).successful_steps = 1
    /\ Get(Get(summary).body).failed_steps = 1

\* the coroutines inside runtime.load() of model m
Loading(m) == {t \in DOMAIN tasks : tasks[t].pc = "loading" /\ tasks[t].model = m}

\* C12: under concurrent load_model, unload_model and generate calls no
\* model is being loaded by two callers at once, every name in loaded_models
\* is the name of a runtime that is loaded, and no unload_model fails on an
\* entry that another call has removed.
C12_RegistryExclusive ==
    /\ \A m \in Models :
        /\ Cardinality(Loading(m)) <= 1
        /\ m \in loaded_models => runtimes[m].is_loaded
    /\ \A t \in DOMAIN tasks :
        ~(tasks[t].op = "unload_model" /\ tasks[t].result = "KeyError")

\* one coroutine calls the manager: its calls form a sequence
Sequential == DOMAIN tasks = {1}

\* C16 as stated: in a sequence of calls, a model that was never unloaded
\* has had load() called at most once, and a generate that returned left
\* the model in loaded_models.
C16_LoadCalledOnce ==
    Sequential =>
        \A m \in Models :
            /\ runtimes[m].unload_calls = 0 => runtimes[m].load_calls <= 1
            /\ (/\ tasks[1].pc = "idle" /\ tasks[1].op = "generate"
                /\ tasks[1].model = m /\ tasks[1].result = "text")
               => m \in loaded_models

\* C16 amended: in a sequence of calls, load_model on a model that is in
\* loaded_models returns True and calls nothing; for a model never unloaded
\* load() returns True at most once and is not called after it has; and a
\* generate that returned left the model in loaded_models.
C16_LoadedNotReloaded ==
    [][Sequential =>
        \A m \in Models :
            /\ (/\ tasks[1].pc = "idle" /\ tasks'[1] # tasks[1]
                /\ tasks'[1].op = "load_model" /\ tasks'[1].model = m
                /\ m \in loaded_models)
               => /\ tasks'[1].pc = "idle"
                  /\ tasks'[1].result = "True"
                  /\ runtimes' = runtimes
                  /\ loaded_models' = loaded_models
            /\ runtimes'[m].unload_calls = 0 =>
                /\ runtimes'[m].loads_ok <= 1
                /\ runtimes[m].loads_ok = 1 =>
                        runtimes'[m].load_calls = runtimes[m].load_calls
            /\ (/\ tasks'[1].pc = "idle" /\ tasks'[1].op = "generate"
                /\ tasks'[1].model = m /\ tasks'[1].result = "text")
               => m \in loaded_models']_vars

\* a load() that failed, the generate that followed loaded the model, and a
\* load_model after it found it loaded
C16_Witness ==
    /\ Sequential
    /\ tasks[1].op = "load_model"
    /\ tasks[1].result = "True"
    /\ tasks[1].n = 3
    /\ \E m \in Models :
        /\ tasks[1].model = m
        /\ m \in loaded_models
        /\ runtimes[m].load_calls = 2
        /\ runtimes[m].loads_ok = 1
        /\ runtimes[m].unload_calls = 0

\* ---- C13, C14: the project store ----

\* the rows of every dependent table that reference project p
Dependents(p) ==
    [contexts |-> rows_of_project(contexts, p),
     runs |-> rows_of_project(runs, p),
     artifacts |-> rows_of_project(artifacts, p)]

NoRows == [contexts |-> {}, runs |-> {}, artifacts |-> {}]

\* C13: deleting a project that exists returns True and leaves neither the
\* project nor any context, run or artifact that references it; deleting a
\* run that exists returns True and leaves neither the run nor any artifact
\* that references it.
C13_DeletionCascades ==
    /\ (store_call.op = "delete_project" /\ store_call.existed)
        => /\ store_call.result = "True"
           /\ store_call.arg \notin projects
           /\ Dependents(store_call.arg) = NoRows
    /\ (store_call.op = "delete_run" /\ store_call.existed)
        => /\ store_call.result = "True"
           /\ store_call.arg \notin DOMAIN runs
           /\ rows_of_run(artifacts, store_call.arg) = {}

\* C14: every context, run and artifact references a project that exists.
C14_ReferencesExist ==
    /\ \A k \in DOMAIN contexts : contexts[k].project_id \in projects
    /\ \A r \in DOMAIN runs : runs[r].project_id \in projects
    /\ \A k \in DOMAIN artifacts : artifacts[k].project_id \in projects

\* ---- C17, C18: artifact extraction ----

\* the call has returned
Extracted == ~IsNone(extraction.artifacts)

\* the fenced blocks of the text, in source order, and those of one kind
RECURSIVE blocks_in(_, _, _)
blocks_in(segments, kinds, k) ==
    IF k > Len(segments) THEN <<>>
    ELSE (IF segments[k].kind \in kinds THEN <<segments[k]>> ELSE <<>>)
         \o blocks_in(segments, kinds, k + 1)

BlocksOf(kinds) == blocks_in(extraction.segments, kinds, 1)

\* {label}_component_{i}.jsx, {label}_component_{i}.tsx,
\* {label}_styles_{i}.css, {label}_script_{i}.py
ArtifactName(label, kind, i) ==
    label \o "_"
    \o (CASE kind = "jsx" -> "component" [] kind = "tsx" -> "component"
          [] kind = "css" -> "styles" [] kind = "python" -> "script")
    \o "_" \o ToString(i) \o "."
    \o (IF kind = "python" THEN "py" ELSE kind)

\* one artifact per block of a kind, in source order, numbered from 0, its
\* content the interior without the surrounding whitespace
ExpectedOf(kind) ==
    LET blocks == BlocksOf({kind})
    IN  [i \in 1..Len(blocks) |->
            [type |-> kind,
             name |-> ArtifactName(extraction.step_name, kind, i - 1),
             content |-> blocks[i].interior.core]]

\* C17: a text whose blocks of a recognized kind are N >= 0 blocks of one
\* kind yields exactly those N artifacts, in source order, numbered 0..N-1,
\* with trimmed contents; with no block of a recognized kind it yields the
\* empty list.
C17_OneKindRoundTrip ==
    Extracted =>
        \A kind \in RecognizedKinds :
            (\A k \in DOMAIN extraction.segments :
                extraction.segments[k].kind \in RecognizedKinds
                    => extraction.segments[k].kind = kind)
            => Get(extraction.artifacts) = ExpectedOf(kind)

\* every fenced block of the text is of a recognized kind
OnlyRecognizedBlocks ==
    \A k \in DOMAIN extraction.segments :
        extraction.segments[k].kind \in RecognizedKinds \cup {"prose"}

\* C18: a text that mixes blocks of recognized kinds yields one artifact per
\* block, the jsx blocks first, then tsx, css and python, each kind in
\* source order and numbered from 0, and no two artifacts share a name.
C18_MixedKindsPartitioned ==
    (Extracted /\ OnlyRecognizedBlocks) =>
        LET arts == Get(extraction.artifacts) IN
        /\ arts = ExpectedOf("jsx") \o ExpectedOf("tsx")
                  \o ExpectedOf("css") \o ExpectedOf("python")
        /\ Len(arts) = Len(BlocksOf(RecognizedKinds))
        /\ \A i, j \in DOMAIN arts : arts[i].name = arts[j].name => i = j

\* two blocks of one kind with a block of another kind between them
C18_Witness ==
    /\ Extracted
    /\ OnlyRecognizedBlocks
    /\ \E i, j, k \in DOMAIN extraction.segments :
        /\ i < j /\ j < k
        /\ extraction.segments[i].kind = "jsx"
        /\ extraction.segments[j].kind = "css"
        /\ extraction.segments[k].kind = "jsx"
        /\ extraction.segments[i].interior.core # extraction.segments[k].interior.core
    /\ Len(Get(extraction.artifacts)) = 3

\* ---- C19: the Framer conversion ----

Converted == ~IsNone(conversion.results)

\* the jsx and tsx artifacts of the request, in input order
RECURSIVE jsx_tsx_from(_, _)
jsx_tsx_from(input, k) ==
    IF k > Len(input) THEN <<>>
    ELSE (IF input[k].type \in {Some("jsx"), Some("tsx")}
          THEN <<input[k]>> ELSE <<>>)
         \o jsx_tsx_from(input, k + 1)

Convertible == jsx_tsx_from(conversion.artifacts, 1)

\* an artifact the passes cannot work on
Malformed(artifact) == IsNone(artifact.name) \/ IsNone(artifact.content)

RECURSIVE written_rows(_, _, _, _, _)
written_rows(run_id, project_id, arts, saved, k) ==
    IF k > Len(arts) THEN <<>>
    ELSE (IF k \in saved
          THEN << [project_id |-> project_id, run_id |-> run_id,
                   name |-> arts[k].name,
                   path |-> "/artifacts/" \o arts[k].name,
                   content |-> arts[k].content,
                   type |-> arts[k].type, source |-> "orchestrator"] >>
          ELSE <<>>)
         \o written_rows(run_id, project_id, arts, saved, k + 1)

\* the statuses follow from the steps alone, whatever became of the writes
StatusesFromSteps ==
    Entered =>
        /\ \A k \in DOMAIN ex.results.steps :
            ex.results.steps[k].status =
                IF HasHandler(ex.pipeline.steps[k].model_type) THEN SUCCESS ELSE FAILED
        /\ ex.pc = "done" =>
            ex.results.status =
                IF \E k \in DOMAIN ex.results.steps : ex.results.steps[k].status = FAILED
                THEN FAILED ELSE SUCCESS

\* one turn of the loop: every artifact whose write does not raise is
\* written, those after a write that raised included, and after a step
\* that succeeded the loop goes on to the next step
TurnIgnoresFailedWrites ==
    (ex.pc = "loop" /\ Len(ex'.calls) = Len(ex.calls) + 1) =>
        LET n == Len(ex.calls) + 1
            output == ex'.results.steps[n]
        IN  /\ artifacts' = artifacts \o written_rows(ex.run_id,
                                ex.pipeline.project_id, output.artifacts,
                                ex'.calls[n].saved, 1)
            /\ output.status = SUCCESS =>
                ex'.pc = IF n = Len(ex.pipeline.steps) THEN "after_loop" ELSE "loop"

\* C20: a write that fails, of an artifact or of the run status, changes
\* neither a step's recorded status nor the returned status; the artifacts
\* after one whose save failed are still saved, and the next step runs.
C20_PersistenceFailuresSwallowed ==
    /\ []StatusesFromSteps
    /\ [][TurnIgnoresFailedWrites]_vars

\* a run returned SUCCESS whose row was never updated, and in which the
\* first artifact of a step was not saved, the second was, and a further
\* step ran
C20_Witness ==
    /\ ex.pc = "done"
    /\ ex.results.status = SUCCESS
    /\ ex.run_id \in DOMAIN runs
    /\ runs[ex.run_id].status = PENDING
    /\ \E c \in DOMAIN ex.calls :
        /\ c < Len(ex.calls)
        /\ Len(ex.results.steps[c].artifacts) >= 2
        /\ 1 \notin ex.calls[c].saved
        /\ 2 \in ex.calls[c].saved
        /\ \E k \in DOMAIN artifacts :
            /\ artifacts[k].run_id = ex.run_id
            /\ artifacts[k].name = ex.results.steps[c].artifacts[2].name

\* ---- C21: the context a step is given ----

OutputKey(j) == "step_" \o ToString(j) \o "_output"
ArtifactsKey(j) == "step_" \o ToString(j) \o "_artifacts"

\* the context given to the call at position c (1-based) holds the global
\* context, the result and the artifacts of every earlier step, and
\* nothing of step c - 1 (0-based) or a later one
ContextGivenTo(c) ==
    LET context == ex.calls[c].context
        gc == ex.pipeline.global_context
    IN  /\ \A g \in DOMAIN gc :
            dict_has(context, gc[g][1]) /\ dict_get(context, gc[g][1]) = gc[g][2]
        /\ \A j \in 1..(c - 1) :
            /\ dict_has(context, OutputKey(j - 1))
            /\ dict_get(context, OutputKey(j - 1))
                    = StrVal(Get(ex.results.steps[j].result))
            /\ dict_has(context, ArtifactsKey(j - 1))
            /\ dict_get(context, ArtifactsKey(j - 1))
                    = ListVal(ex.results.steps[j].artifacts)
        /\ \A k \in (c - 1)..MaxSteps :
            ~dict_has(context, OutputKey(k)) /\ ~dict_has(context, ArtifactsKey(k))
        /\ Len(context) = Len(gc) + 2 * (c - 1)

\* C21: when the step at position i + 1 starts, the context holds
\* step_j_output and step_j_artifacts of every j <= i, equal to what step j
\* returned, beside the global context, and nothing of a later step.
C21_ContextBeforeNextStep ==
    \A c \in DOMAIN ex.calls : ContextGivenTo(c)

\* a second step started after a step that returned artifacts, under a
\* global context that is not empty
C21_Witness ==
    /\ Len(ex.calls) >= 2
    /\ Len(ex.results.steps[1].artifacts) >= 1
    /\ Len(ex.pipeline.global_context) >= 1
    /\ dict_has(ex.calls[2].context, OutputKey(0))

\* ---- C22: RUNNING before the first step ----

\* C22 as stated: whenever a step's handler is invoked the run's row, if
\* it has one, is RUNNING.
C22_RunningBeforeSteps ==
    \A c \in DOMAIN ex.calls :
        ~IsNone(ex.calls[c].persisted) => ex.calls[c].persisted = Some(RUNNING)

\* C22, corrected: the write of RUNNING is attempted before any step's
\* handler is invoked; each step then finds the row RUNNING if that write
\* went through, and as the write found it if the write failed.
C22_RunningAttemptedBeforeSteps ==
    \A c \in DOMAIN ex.calls :
        /\ Len(ex.updates) >= 1
        /\ ex.updates[1].status = RUNNING
        /\ ex.calls[c].persisted =
             IF IsNone(ex.updates[1].found) THEN None
             ELSE IF ex.updates[1].ok THEN Some(RUNNING)
             ELSE ex.updates[1].found

\* a step invoked on a run still PENDING, and one on a run made RUNNING
C22_Witness ==
    /\ Len(ex.calls) >= 1
    /\ ~ex.updates[1].ok
    /\ ex.calls[1].persisted = Some(PENDING)

\* ---- C23: the shape of a StepOutput ----

SuccessShape(o) ==
    /\ o.status = SUCCESS
    /\ ~IsNone(o.result)
    /\ IsNone(o.error)
    /\ o.artifacts = extract_artifacts(o.step_name, Get(o.result))

FailedShape(o) ==
    /\ o.status = FAILED
    /\ ~IsNone(o.error)
    /\ IsNone(o.result)
    /\ o.artifacts = <<>>

\* C23: every StepOutput of _execute_step is SUCCESS with a result, no
\* error and the artifacts extracted from that result, or FAILED with an
\* error, no result and no artifact.
C23_StepOutputShape ==
    \A k \in DOMAIN ex.results.steps :
        SuccessShape(ex.results.steps[k]) \/ FailedShape(ex.results.steps[k])

\* a step that returned artifacts, followed by a step that failed
C23_Witness ==
    /\ Len(ex.results.steps) = 2
    /\ SuccessShape(ex.results.steps[1])
    /\ Len(ex.results.steps[1].artifacts) >= 1
    /\ FailedShape(ex.results.steps[2])

\* ---- C24, C25: the persisted status when the call is over ----

\* the request to the submission endpoint is over, with a run created
RequestOver ==
    /\ ex.via = "route"
    /\ ex.pc = "done"
    /\ ex.run_id \in DOMAIN runs

\* C24: a run the submission endpoint created is SUCCESS or FAILED in the
\* table when the request is over, whether it returned or raised.
C24_RunLeftTerminal ==
    RequestOver => runs[ex.run_id].status \in {SUCCESS, FAILED}

\* the last call of _update_run
LastUpdate == ex.updates[Len(ex.updates)]

\* the call returned for a run that had a row when its status was last written
ReturnedForRow ==
    /\ Returned
    /\ LastUpdate.found # None
    /\ ex.run_id \in DOMAIN runs

\* C25 as stated: the returned status is the persisted status of the run.
C25_ReturnedEqualsPersisted ==
    ReturnedForRow => runs[ex.run_id].status = ex.results.status

\* C25, corrected: the last status write is that of the returned status;
\* the row holds the returned status if that write went through and is as
\* the write found it if it failed.
C25_ReturnedEqualsWritten ==
    /\ Returned =>
        /\ Len(ex.updates) = 2
        /\ LastUpdate.status = ex.results.status
    /\ ReturnedForRow =>
        Some(runs[ex.run_id].status) =
            IF LastUpdate.ok THEN Some(ex.results.status) ELSE LastUpdate.found

\* a call that returned SUCCESS for a run left RUNNING by a failed write
C25_Witness ==
    /\ ReturnedForRow
    /\ ex.results.status = SUCCESS
    /\ ~LastUpdate.ok
    /\ runs[ex.run_id].status = RUNNING

\* ---- C26: the artifact rows of a run ----

\* the rows of the first k steps: for a SUCCESS step one row per artifact
\* whose write did not raise, in order, under the run id and the project id
\* of the pipeline; for a FAILED step none
RECURSIVE RowsOfSteps(_)
RowsOfSteps(k) ==
    IF k = 0 THEN <<>>
    ELSE RowsOfSteps(k - 1) \o
         (IF ex.results.steps[k].status = SUCCESS
          THEN written_rows(ex.run_id, ex.pipeline.project_id,
                            ex.results.steps[k].artifacts, ex.calls[k].saved, 1)
          ELSE <<>>)

\* C26: the GeneratedArtifact rows of a run are the artifacts of its SUCCESS
\* steps, one per artifact in step order, each with the run id and the
\* project id of the pipeline; a FAILED step and the assembler add none.
C26_RowsAreStepArtifacts ==
    /\ Len(ex.calls) = Len(ex.results.steps)
    /\ artifacts = RowsOfSteps(Len(ex.calls))
    /\ \A k \in DOMAIN ex.calls :
        /\ ex.calls[k].saved \subseteq DOMAIN ex.results.steps[k].artifacts
        /\ ex.results.steps[k].status = FAILED => ex.calls[k].saved = {}

\* a run returned SUCCESS with final artifacts of the assembler, whose rows
\* are the artifacts of its one step
C26_Witness ==
    /\ Returned
    /\ ex.results.status = SUCCESS
    /\ Len(ex.results.final_artifacts) >= 1
    /\ Len(ex.results.steps) = 1
    /\ Len(ex.results.steps[1].artifacts) >= 1
    /\ ex.calls[1].saved = DOMAIN ex.results.steps[1].artifacts
    /\ Len(artifacts) = Len(ex.results.steps[1].artifacts)
    /\ \A k \in DOMAIN artifacts :
        /\ artifacts[k].run_id = ex.run_id
        /\ artifacts[k].project_id = ex.pipeline.project_id
        /\ artifacts[k].name = ex.results.steps[1].artifacts[k].name

\* a run stopped at a FAILED step, whose rows are those of the step before
C26_WitnessFailedStep ==
    /\ Returned
    /\ ex.results.status = FAILED
    /\ Len(ex.results.steps) = 2
    /\ Len(ex.results.steps[1].artifacts) >= 1
    /\ Len(artifacts) = Len(ex.results.steps[1].artifacts)

\* ---- C27: the registry of loaded models ----

\* C27: every name in loaded_models is a registered model, and
\* loaded_models[name] is the runtime runtimes[name], with is_loaded true.
C27_LoadedAreRegistered ==
    \A m \in loaded_models :
        /\ m \in DOMAIN runtimes
        /\ m \notin DOMAIN replaced
        /\ loaded_runtime(runtimes, replaced, m).is_loaded

\* ---- C28: nested and malformed fences ----

\* the artifacts of a kind that the call returned
ArtifactsOfKind(kind) ==
    {k \in DOMAIN Get(extraction.artifacts) :
        Get(extraction.artifacts)[k].type = kind}

\* every segment of the text is prose or a well-formed block that holds no
\* fence
WellFormedText ==
    \A k \in DOMAIN extraction.segments :
        extraction.segments[k].kind # "unclosed"
        /\ ~Contains(extraction.segments[k].interior.core, Fence)

\* C28: the artifacts returned are one per well-formed top-level block of
\* the text: an opening fence without a closing fence of its own and a fence
\* inside another block give no artifact of their own.
C28_TopLevelBlocksOnly ==
    Extracted =>
        \A kind \in RecognizedKinds :
            Cardinality(ArtifactsOfKind(kind)) = Len(BlocksOf({kind}))

\* the same for the texts without such fences
C28_WellFormedTexts ==
    (Extracted /\ WellFormedText) =>
        \A kind \in RecognizedKinds :
            Cardinality(ArtifactsOfKind(kind)) = Len(BlocksOf({kind}))

\* ---- C29: the step history of a service called more than once ----

\* a step takes nothing from, and adds nothing to, the history of a run id
\* other than that of the call
OtherHistoriesUnchanged ==
    /\ DOMAIN step_history \subseteq DOMAIN step_history'
    /\ DOMAIN step_history' \subseteq DOMAIN step_history \cup {ex.run_id}
    /\ \A r \in DOMAIN step_history :
        r # ex.run_id => step_history'[r] = step_history[r]

\* C29: execute_pipeline(run_id) writes only step_history[run_id], and the
\* history of a run id holds the steps of the latest call for it and none
\* of an earlier call.
C29_HistoryOfLatestCall ==
    /\ []((ex.via = "service" /\ ex.pc \in {"loop", "after_loop", "done"})
            => /\ ex.run_id \in DOMAIN step_history
               /\ step_history[ex.run_id] = ex.results.steps)
    /\ [][OtherHistoriesUnchanged]_vars

\* a second call with the run id of the first, which had run two steps, has
\* returned after one step
C29_Witness ==
    /\ ex.pc = "done"
    /\ Len(ex.earlier) = 1
    /\ ex.earlier[1].run_id = ex.run_id
    /\ Len(ex.earlier[1].steps) = 2
    /\ Len(ex.results.steps) = 1
    /\ step_history[ex.run_id] = ex.results.steps

\* a second call with another run id has returned, and the history of the
\* first is as the first call left it
C29_WitnessOtherRun ==
    /\ ex.pc = "done"
    /\ Len(ex.earlier) = 1
    /\ ex.earlier[1].run_id # ex.run_id
    /\ Len(ex.earlier[1].steps) >= 1
    /\ Len(ex.results.steps) >= 1
    /\ step_history[ex.earlier[1].run_id] = ex.earlier[1].steps

\* ---- C30: ProjectService calls with an id that is not there ----

ProjectOps == {"get_project", "update_project", "delete_project"}
ContextOps == {"get_context", "update_context", "delete_context"}
RunOps == {"get_run", "update_run_status", "delete_run"}
ArtifactOps == {"get_artifact", "update_artifact", "delete_artifact"}
DeleteOps == {"delete_project", "delete_context", "delete_run", "delete_artifact"}

\* the table of the operation has a row of that id
RowExists(op, id) ==
    CASE op \in ProjectOps -> id \in projects
      [] op \in ContextOps -> id \in DOMAIN contexts
      [] op \in RunOps -> id \in DOMAIN runs
      [] op \in ArtifactOps -> id \in DOMAIN artifacts

\* the step is a get, update or delete call with an id that has no row
CalledWithMissingId ==
    /\ store_call' # store_call
    /\ store_call'.op \in ProjectOps \cup ContextOps \cup RunOps \cup ArtifactOps
    /\ ~RowExists(store_call'.op, store_call'.arg)

\* C30: a get, update or delete called with an id that does not exist
\* returns None (get, update) or False (delete) and leaves the projects,
\* contexts, runs and artifacts as they are.
C30_MissingIdChangesNothing ==
    [][CalledWithMissingId =>
        /\ store_call'.result =
              IF store_call'.op \in DeleteOps THEN "False" ELSE "None"
        /\ ~store_call'.existed
        /\ UNCHANGED <<projects, contexts, runs, artifacts>>]_vars

\* update_artifact has answered None for an id of no row while the table
\* holds artifacts
C30_Witness ==
    /\ store_call.op = "update_artifact"
    /\ ~store_call.existed
    /\ store_call.result = "None"
    /\ store_call.arg \notin DOMAIN artifacts
    /\ Len(artifacts) >= 1
    /\ \A k \in DOMAIN artifacts : artifacts[k].name = "n"

====
